---- MODULE Spec2Model ----
(***************************************************************************)
(* Longest-simple-path maze solver (backend/rust/src/rust_maze_solver.rs). *)
(*                                                                         *)
(* The module models the bounded graph, the clockwise neighbour sort, the  *)
(* graph builder, the face finder, the exact and the branch-and-bound      *)
(* searches, the endpoint refiner, the annealing improver and the          *)
(* per-component pipeline of process_and_solve_maze.                       *)
(*                                                                         *)
(* Node names are sequences of character codes: 0..9 are the digits '0'..  *)
(* '9', 10 is a letter, 11 is '+'.  Node ids are naturals.  A NodeBitset   *)
(* is modelled by the set of ids whose bit is set.                         *)
(***************************************************************************)
EXTENDS Integers, Sequences, FiniteSets, TLC

(***************************************************************************)
(* Program constants.  MAX_NODE_COUNT (2048 in the source), MAX_FACE_SIZE   *)
(* (28 in the source) and MAX_SIZE_BRUTE_FORCE (100 in the source) are     *)
(* scaled down so that the over-capacity, the over-long-face and the       *)
(* heuristic cases are reachable; the others keep the source's values.     *)
(***************************************************************************)
MAX_NODE_COUNT == 10
NEIGHBOR_CAPACITY == 8
MAX_FACE_SIZE == 6
MAX_SIZE_BRUTE_FORCE == 4
NUM_ENDPOINT_HEURISTIC == 254
DEADLINE_CADENCE == 10

(***************************************************************************)
(* Bounds of the model.                                                    *)
(***************************************************************************)
MaxThreads == 2

\* Rotations of the key order of a map that are explored.
MaxRotation == 0

(***************************************************************************)
(* Sequence helpers.                                                       *)
(***************************************************************************)
Range(s) == {s[i] : i \in 1..Len(s)}

Last(s) == s[Len(s)]

Contains(s, x) == \E i \in 1..Len(s) : s[i] = x

\* 1-based index of the first occurrence of x in s, 0 when absent.
Position(s, x) ==
    IF Contains(s, x) THEN CHOOSE i \in 1..Len(s) : s[i] = x /\ \A j \in 1..(i - 1) : s[j] # x
    ELSE 0

Reverse(s) == [i \in 1..Len(s) |-> s[Len(s) + 1 - i]]

IsDistinct(s) == \A i, j \in 1..Len(s) : i # j => s[i] # s[j]

Max2(a, b) == IF a >= b THEN a ELSE b

Min2(a, b) == IF a <= b THEN a ELSE b

\* Subsequence s[a..b] with 1-based inclusive bounds, empty when a > b.
Slice(s, a, b) == IF a > b THEN << >> ELSE SubSeq(s, a, b)

\* Stable insertion of x into the key-sorted sequence s (after equal keys);
\* key is a function from elements to integer keys.
RECURSIVE InsertByKey(_, _, _)
InsertByKey(s, x, key) ==
    IF s = << >> THEN << x >>
    ELSE IF key[x] < key[Head(s)] THEN << x >> \o s
    ELSE << Head(s) >> \o InsertByKey(Tail(s), x, key)

\* Stable sort of s by ascending key (slice::sort_by_key / sort_by).
RECURSIVE SortByKey(_, _)
SortByKey(s, key) ==
    IF s = << >> THEN << >>
    ELSE InsertByKey(SortByKey(SubSeq(s, 1, Len(s) - 1), key), Last(s), key)

(***************************************************************************)
(* str::parse::<usize>().unwrap_or(0): an optional leading '+', then one   *)
(* or more digits; anything else is an error and yields 0.                 *)
(***************************************************************************)
RECURSIVE DigitsValue(_)
DigitsValue(s) ==
    IF s = << >> THEN 0 ELSE 10 * DigitsValue(SubSeq(s, 1, Len(s) - 1)) + Last(s)

ParseName(s) ==
    LET body == IF s # << >> /\ s[1] = 11 THEN Tail(s) ELSE s
    IN IF body = << >> \/ \E i \in 1..Len(body) : body[i] > 9 THEN 0
       ELSE DigitsValue(body)

(***************************************************************************)
(* A component is the input HashMap<String, Vec<String>>: a sequence of    *)
(* entries [name, nbrs] with pairwise distinct names.  The sequence order  *)
(* stands for the map's iteration order, which the program does not        *)
(* control.                                                                *)
(***************************************************************************)
Keys(comp) == {comp[i].name : i \in 1..Len(comp)}

EntryOf(comp, nm) == comp[CHOOSE i \in 1..Len(comp) : comp[i].name = nm]

\* usize subtraction center - 1 in a build without overflow checks: 0 - 1
\* wraps to usize::MAX, written -1 here (no name parses to it).
WrappingPred(center) == IF center = 0 THEN -1 ELSE center - 1

\* The last element of s whose parsed value is v, as a sequence of length
\* 0 or 1 (an Option assigned in a loop keeps the last assignment).
LastParsingTo(s, v) ==
    LET hits == {i \in 1..Len(s) : ParseName(s[i]) = v}
    IN IF hits = {} THEN << >>
       ELSE << s[CHOOSE i \in hits : \A j \in hits : j <= i] >>

\* One entry of sort_neighbors_clockwise: upper row ascending, same-row
\* next, lower row descending, same-row previous.
SortEntryClockwise(center_str, neighbors) ==
    LET center == ParseName(center_str)
        prevv == WrappingPred(center)
        nextv == center + 1
        same_row_prev == LastParsingTo(neighbors, prevv)
        same_row_next == LastParsingTo(neighbors, nextv)
        upper_row == SelectSeq(neighbors,
                        LAMBDA n : ParseName(n) # prevv /\ ParseName(n) # nextv
                                   /\ ParseName(n) < center)
        lower_row == SelectSeq(neighbors,
                        LAMBDA n : ParseName(n) # prevv /\ ParseName(n) # nextv
                                   /\ ~(ParseName(n) < center))
        asc == [n \in Range(neighbors) |-> ParseName(n)]
        desc == [n \in Range(neighbors) |-> 0 - ParseName(n)]
    IN IF Len(neighbors) <= 1 THEN neighbors
       ELSE SortByKey(upper_row, asc) \o same_row_next
            \o SortByKey(lower_row, desc) \o same_row_prev

\* center - 1 is evaluated for an entry with two or more neighbours; with
\* overflow checks compiled in it panics when the centre parses to 0.
SortPanics(comp, overflow_checks) ==
    overflow_checks
    /\ \E i \in 1..Len(comp) : Len(comp[i].nbrs) >= 2 /\ ParseName(comp[i].name) = 0

sort_neighbors_clockwise(comp) ==
    [i \in 1..Len(comp) |->
        [name |-> comp[i].name,
         nbrs |-> SortEntryClockwise(comp[i].name, comp[i].nbrs)]]

(***************************************************************************)
(* Graph: heapless IndexMap<NodeId, Vec<NodeId, 8>, _, 2048>.  nodes is    *)
(* the insertion order of the keys, adj the neighbour list of each key.    *)
(***************************************************************************)
EmptyGraph == [nodes |-> << >>, adj |-> << >>]

HasNode(g, n) == Contains(g.nodes, n)

node_count(g) == Len(g.nodes)

get_neighbors(g, n) == IF HasNode(g, n) THEN g.adj[n] ELSE << >>

Degree(g, n) == Len(get_neighbors(g, n))

SetAdj(g, n, list) ==
    [g EXCEPT !.adj = [m \in Range(g.nodes) |-> IF m = n THEN list ELSE g.adj[m]]]

\* IndexMap::insert(id, empty list): an existing key keeps its place and
\* has its value replaced; a new key is refused when the map is full.
add_node(g, id) ==
    IF HasNode(g, id) THEN [ok |-> TRUE, g |-> SetAdj(g, id, << >>)]
    ELSE IF Len(g.nodes) >= MAX_NODE_COUNT THEN [ok |-> FALSE, g |-> g]
    ELSE [ok |-> TRUE,
          g |-> [nodes |-> Append(g.nodes, id),
                 adj |-> [m \in Range(g.nodes) \cup {id} |->
                             IF m = id THEN << >> ELSE g.adj[m]]]]

\* Vec::push on a neighbour list of capacity 8, skipped for a duplicate.
PushNeighbor(g, n, x) ==
    IF Contains(g.adj[n], x) THEN [ok |-> TRUE, g |-> g]
    ELSE IF Len(g.adj[n]) >= NEIGHBOR_CAPACITY THEN [ok |-> FALSE, g |-> g]
    ELSE [ok |-> TRUE, g |-> SetAdj(g, n, Append(g.adj[n], x))]

add_edge(g, from, to) ==
    LET r1 == IF HasNode(g, from) THEN [ok |-> TRUE, g |-> g] ELSE add_node(g, from)
        r2 == IF HasNode(r1.g, to) THEN [ok |-> TRUE, g |-> r1.g] ELSE add_node(r1.g, to)
        r3 == PushNeighbor(r2.g, from, to)
        r4 == PushNeighbor(r3.g, to, from)
    IN IF ~r1.ok THEN r1
       ELSE IF ~r2.ok THEN r2
       ELSE IF ~r3.ok THEN r3
       ELSE r4

next_clockwise_neighbor(g, node, from) ==
    LET neighbors == get_neighbors(g, node)
        pos == Position(neighbors, from)
    IN IF ~HasNode(g, node) \/ pos = 0 THEN << >>
       ELSE << neighbors[(pos % Len(neighbors)) + 1] >>

(***************************************************************************)
(* build_graph_from_adjacency: ids are the positions of the keys in        *)
(* iteration order (0-based); every Result of add_node and add_edge is     *)
(* dropped (let _ = ...).  Indexing name_to_id with a neighbour that is    *)
(* not a key panics.                                                       *)
(***************************************************************************)
NameToId(comp, nm) == (CHOOSE i \in 1..Len(comp) : comp[i].name = nm) - 1

id_to_name(comp) == [i \in 1..Len(comp) |-> comp[i].name]

BuildPanics(comp) ==
    \E i \in 1..Len(comp) : \E j \in 1..Len(comp[i].nbrs) :
        comp[i].nbrs[j] \notin Keys(comp)

\* The state of the two nested loops: the graph so far, the entry i and
\* the neighbour j about to be added (j = 0: the add_node of entry i is
\* next), and whether some add_node or add_edge has returned Err.
BuildStart == [g |-> EmptyGraph, i |-> 1, j |-> 0, overflow |-> FALSE]

BuildStep(st, comp) ==
    LET r == IF st.j = 0 THEN add_node(st.g, st.i - 1)
             ELSE add_edge(st.g, st.i - 1, NameToId(comp, comp[st.i].nbrs[st.j]))
        last == st.j >= Len(comp[st.i].nbrs)
    IN [g |-> r.g,
        i |-> IF last THEN st.i + 1 ELSE st.i,
        j |-> IF last THEN 0 ELSE st.j + 1,
        overflow |-> st.overflow \/ ~r.ok]

RECURSIVE RunBuild(_, _)
RunBuild(st, comp) ==
    IF st.i > Len(comp) THEN st ELSE RunBuild(BuildStep(st, comp), comp)

build_graph_from_adjacency(comp) == RunBuild(BuildStart, comp).g

\* Some add_node or add_edge of the build returned Err (and was ignored).
BuildOverflowed(comp) == RunBuild(BuildStart, comp).overflow

(***************************************************************************)
(* verify_path: no node twice, every consecutive pair in the neighbour     *)
(* list of its first node.                                                 *)
(***************************************************************************)
\* Only a node equal to the one right before it is found.
NoDuplicateAdjacent(path, i, seen) ==
    \A k \in i..(Len(path) - 1) : path[k] # path[k + 1]

\* The first loop: seen.insert(node) fails for a node already seen.
RECURSIVE VerifyNoDuplicate(_, _, _)
VerifyNoDuplicate(path, i, seen) ==
    IF i > Len(path) THEN TRUE
    ELSE IF path[i] \in seen THEN FALSE
    ELSE VerifyNoDuplicate(path, i + 1, seen \cup {path[i]})

\* The second loop, over i in 0..path.len()-1.
RECURSIVE VerifyEdges(_, _, _)
VerifyEdges(g, path, i) ==
    IF i > Len(path) - 1 THEN TRUE
    ELSE IF ~Contains(get_neighbors(g, path[i]), path[i + 1]) THEN FALSE
    ELSE VerifyEdges(g, path, i + 1)

verify_path(g, path) ==
    IF path = << >> THEN TRUE
    ELSE IF ~VerifyNoDuplicate(path, 1, {}) THEN FALSE
    ELSE VerifyEdges(g, path, 1)

(***************************************************************************)
(* FaceFinder.  A face-finder state holds the position hi of build_faces   *)
(* in its double loop (an index into the half-edges in iteration order),   *)
(* visited_half_edges, faces, and the locals of find_face_clockwise while   *)
(* a walk is running.  traversed records, for the half-edge properties,    *)
(* which walk (named by its starting half-edge) inserted which half-edge.  *)
(***************************************************************************)
RECURSIVE HalfEdgesFrom(_, _)
HalfEdgesFrom(g, i) ==
    IF i > Len(g.nodes) THEN << >>
    ELSE [k \in 1..Len(g.adj[g.nodes[i]]) |-> << g.nodes[i], g.adj[g.nodes[i]][k] >>]
         \o HalfEdgesFrom(g, i + 1)

\* The (node, neighbor) pairs in the order build_faces visits them.
HalfEdges(g) == HalfEdgesFrom(g, 1)

FaceFinderNew ==
    [hi |-> 1, walking |-> FALSE, start |-> 0, first |-> 0, current |-> 0,
     next |-> 0, face |-> << >>, visited_half_edges |-> {}, faces |-> << >>,
     traversed |-> {}]

FaceDone(g, fs) == ~fs.walking /\ fs.hi > Len(HalfEdges(g))

\* build_faces: the half-edge is already visited, continue.
FaceCanSkip(g, fs) ==
    ~fs.walking /\ fs.hi <= Len(HalfEdges(g))
    /\ HalfEdges(g)[fs.hi] \in fs.visited_half_edges

FaceSkipStep(g, fs) == [fs EXCEPT !.hi = @ + 1]

\* build_faces calls find_face_clockwise, which sets up its locals.
FaceCanStart(g, fs) ==
    ~fs.walking /\ fs.hi <= Len(HalfEdges(g))
    /\ HalfEdges(g)[fs.hi] \notin fs.visited_half_edges

FaceStartStep(g, fs) ==
    LET he == HalfEdges(g)[fs.hi]
    IN [fs EXCEPT !.walking = TRUE, !.start = he[1], !.first = he[2],
                  !.current = he[1], !.next = he[2], !.face = << he[1] >>]

\* The walk is over: back in build_faces, at the next half-edge.
FaceReturn(fs, keep) ==
    [fs EXCEPT !.walking = FALSE, !.hi = @ + 1, !.face = << >>,
               !.faces = IF keep THEN Append(@, fs.face) ELSE @]

\* The loop body without its return for a face longer than MAX_FACE_SIZE.
FaceWalkStepUnbounded(g, fs) ==
    LET he == << fs.current, fs.next >>
        prev == fs.current
        current == fs.next
        face == Append(fs.face, current)
        marked == [fs EXCEPT !.visited_half_edges = @ \cup {he},
                             !.traversed = @ \cup {[he |-> he, walk |-> << fs.start, fs.first >>]},
                             !.current = current, !.face = face]
        nxt == next_clockwise_neighbor(g, current, prev)
    IN IF current = fs.start
       THEN FaceReturn(marked, Len(face) >= 3)
       ELSE IF nxt = << >> THEN FaceReturn(marked, FALSE)
       ELSE [marked EXCEPT !.next = nxt[1]]

\* One iteration of the loop of find_face_clockwise.
FaceWalkStep(g, fs) ==
    LET he == << fs.current, fs.next >>
        prev == fs.current
        current == fs.next
        face == Append(fs.face, current)
        marked == [fs EXCEPT !.visited_half_edges = @ \cup {he},
                             !.traversed = @ \cup {[he |-> he, walk |-> << fs.start, fs.first >>]},
                             !.current = current, !.face = face]
        nxt == next_clockwise_neighbor(g, current, prev)
    IN IF current = fs.start
       THEN FaceReturn(marked, Len(face) >= 3 /\ Len(face) <= MAX_FACE_SIZE)
       ELSE IF nxt = << >> THEN FaceReturn(marked, FALSE)
       ELSE IF Len(face) > MAX_FACE_SIZE THEN FaceReturn(marked, FALSE)
       ELSE [marked EXCEPT !.next = nxt[1]]

\* find_face_clockwise: the loop, run until the walk returns.
RECURSIVE RunWalk(_, _)
RunWalk(g, fs) == IF fs.walking THEN RunWalk(g, FaceWalkStep(g, fs)) ELSE fs

RECURSIVE RunFaces(_, _)
RunFaces(g, fs) ==
    IF FaceCanSkip(g, fs) THEN RunFaces(g, FaceSkipStep(g, fs))
    ELSE IF FaceCanStart(g, fs) THEN RunFaces(g, RunWalk(g, FaceStartStep(g, fs)))
    ELSE fs

\* FaceFinder::build_faces: the faces found, in order.
build_faces(g) == RunFaces(g, FaceFinderNew).faces

(***************************************************************************)
(* Exact solver.  A best record is [len, path].  expired says whether the  *)
(* wall clock has passed the deadline; the clock is read only when the     *)
(* path length is a multiple of 10.                                        *)
(***************************************************************************)
NoBest == [len |-> 0, path |-> << >>]

RECURSIVE backtrack_exact_standard(_, _, _, _, _), ExactNeighborsFrom(_, _, _, _, _, _)
backtrack_exact_standard(g, path, visited, best, expired) ==
    IF Len(path) % DEADLINE_CADENCE = 0 /\ expired THEN best
    ELSE IF Len(path) > best.len
    THEN ExactNeighborsFrom(g, path, visited, [len |-> Len(path), path |-> path],
                            expired, 1)
    ELSE ExactNeighborsFrom(g, path, visited, best, expired, 1)

\* The loop over the neighbours of the path's last node, from index i on.
ExactNeighborsFrom(g, path, visited, best, expired, i) ==
    LET nbrs == get_neighbors(g, Last(path))
    IN IF i > Len(nbrs) THEN best
       ELSE IF nbrs[i] \notin visited
       THEN LET after == backtrack_exact_standard(g, Append(path, nbrs[i]),
                                                  visited \cup {nbrs[i]}, best, expired)
            IN \* the recursive call returns before the loop moves on
               IF after.len >= best.len
               THEN ExactNeighborsFrom(g, path, visited, after, expired, i + 1)
               ELSE after
       ELSE ExactNeighborsFrom(g, path, visited, best, expired, i + 1)

\* exact_longest_path_standard: the start nodes handed to the workers.
ExactNodesToTry(g) ==
    LET start_nodes == SelectSeq(g.nodes, LAMBDA n : Degree(g, n) <= 2)
    IN IF Len(start_nodes) < 2 THEN g.nodes ELSE start_nodes

\* A worker that omits visited.set(start_node): the no-repeat guarantee of
\* the returned path rests on that line.
ExactWorkerSearchUnmarked(g, start_node, expired) ==
    backtrack_exact_standard(g, << start_node >>, {}, NoBest, expired)

\* The body of one parallel worker up to its read of best_len.
ExactWorkerSearch(g, start_node, expired) ==
    backtrack_exact_standard(g, << start_node >>, {start_node}, NoBest, expired)

(***************************************************************************)
(* Heuristic solver: face bound and branch-and-bound search.               *)
(***************************************************************************)
NEIGHBOR_ORDER_MIN_NODES == 180
SHALLOW_DEPTH == 20
DEEPENING_MIN_NODES == 500
FULL_DEPTH_LIMIT == 7500
COVERAGE_TARGET_PCT == 85

DepthSchedule == << 80, 175, 360, 2400, 5000, FULL_DEPTH_LIMIT >>

\* Number of entries of the face whose node is not visited.
UnvisitedInFace(face, visited) == Cardinality({i \in 1..Len(face) : face[i] \notin visited})

RECURSIVE SumSeq(_)
SumSeq(s) == IF s = << >> THEN 0 ELSE Head(s) + SumSeq(Tail(s))

\* The inflated sum returned without leftover_nodes.min(..).
EnhancedUncapped(g, current_path, visited, faces) ==
    LET remaining == node_count(g) - Cardinality(visited)
        reachable_faces == SelectSeq(faces, LAMBDA f : Contains(f, Last(current_path)))
        total_reachable ==
            SumSeq([i \in 1..Len(reachable_faces) |->
                        UnvisitedInFace(reachable_faces[i], visited)])
    IN IF reachable_faces = << >> THEN remaining ELSE (total_reachable * 11) \div 10

enhanced_face_heuristic(g, current_path, visited, faces) ==
    LET remaining == node_count(g) - Cardinality(visited)
        last_node == Last(current_path)
        reachable_faces == SelectSeq(faces, LAMBDA f : Contains(f, last_node))
        total_reachable ==
            SumSeq([i \in 1..Len(reachable_faces) |->
                        UnvisitedInFace(reachable_faces[i], visited)])
    IN IF faces = << >> THEN remaining
       ELSE IF reachable_faces = << >> THEN remaining
       ELSE Min2(remaining, (total_reachable * 11) \div 10)

\* The prune test of bnb_search_local.
BnbPrunes(current_length, face_bound, local_best_length) ==
    current_length + (face_bound * 8) \div 10 < local_best_length

\* The order in which bnb_search_local tries the unvisited neighbours.
OrderedNeighbors(g, neighbors, depth) ==
    LET asc == [n \in Range(neighbors) |-> Degree(g, n)]
        desc == [n \in Range(neighbors) |-> 0 - Degree(g, n)]
    IN IF node_count(g) > NEIGHBOR_ORDER_MIN_NODES
       THEN IF depth < SHALLOW_DEPTH THEN SortByKey(neighbors, asc)
            ELSE IF depth % 2 = 0 THEN SortByKey(neighbors, asc)
            ELSE SortByKey(neighbors, desc)
       ELSE neighbors

RECURSIVE bnb_search_local(_, _, _, _, _, _, _), BnbNeighborsFrom(_, _, _, _, _, _, _, _, _)
bnb_search_local(g, faces, work_path, visited, best, depth, depth_limit) ==
    LET current_length == Len(work_path)
        last_node == Last(work_path)
        neighbors == SelectSeq(get_neighbors(g, last_node), LAMBDA n : n \notin visited)
        ordered == OrderedNeighbors(g, neighbors, depth)
    IN IF depth >= depth_limit THEN best
       ELSE IF faces # << >>
               /\ BnbPrunes(current_length,
                            enhanced_face_heuristic(g, work_path, visited, faces), best.len)
       THEN best
       ELSE IF current_length > best.len
       THEN BnbNeighborsFrom(g, faces, work_path, visited,
                             [len |-> current_length, path |-> work_path],
                             depth, depth_limit, ordered, 1)
       ELSE BnbNeighborsFrom(g, faces, work_path, visited, best,
                             depth, depth_limit, ordered, 1)

BnbNeighborsFrom(g, faces, work_path, visited, best, depth, depth_limit, ordered, i) ==
    IF i > Len(ordered) THEN best
    ELSE LET after == bnb_search_local(g, faces, Append(work_path, ordered[i]),
                                       visited \cup {ordered[i]}, best, depth + 1,
                                       depth_limit)
         IN \* the recursive call returns before the loop moves on
            IF after.len >= best.len
            THEN BnbNeighborsFrom(g, faces, work_path, visited, after, depth,
                                  depth_limit, ordered, i + 1)
            ELSE after

\* The iterative-deepening loop of one start node, from schedule index k.
RECURSIVE DeepeningFrom(_, _, _, _, _)
DeepeningFrom(g, faces, start_node, best, k) ==
    IF k > Len(DepthSchedule) THEN best
    ELSE LET b1 == bnb_search_local(g, faces, << start_node >>, {start_node}, best,
                                    0, DepthSchedule[k])
         IN IF b1.len > best.len + 8 THEN DeepeningFrom(g, faces, start_node, b1, k + 1)
            ELSE IF b1.len <= best.len + 1 THEN b1
            ELSE DeepeningFrom(g, faces, start_node, b1, k + 1)

\* One start node of a worker chunk.
SearchFromStart(g, faces, start_node, best) ==
    IF node_count(g) > DEEPENING_MIN_NODES THEN DeepeningFrom(g, faces, start_node, best, 1)
    ELSE bnb_search_local(g, faces, << start_node >>, {start_node}, best, 0, FULL_DEPTH_LIMIT)

\* One worker: its chunk of start nodes, in order, with its own local best.
RECURSIVE SearchChunk(_, _, _, _)
SearchChunk(g, faces, nodes, best) ==
    IF nodes = << >> THEN best
    ELSE LET after == SearchFromStart(g, faces, Head(nodes), best)
         IN \* the search from one start node ends before the next begins
            IF after.len >= best.len THEN SearchChunk(g, faces, Tail(nodes), after)
            ELSE after

\* Chunks that begin at the last element of the chunk before.
ChunksOverlapping(s, chunk_size) ==
    [c \in 1..((Len(s) + chunk_size - 1) \div chunk_size) |->
        Slice(s, IF c = 1 THEN 1 ELSE (c - 1) * chunk_size, Min2(c * chunk_size, Len(s)))]

\* slice::par_chunks(chunk_size).
RECURSIVE Chunks(_, _)
Chunks(s, chunk_size) ==
    IF s = << >> THEN << >>
    ELSE << Slice(s, 1, Min2(chunk_size, Len(s))) >>
         \o Chunks(Slice(s, chunk_size + 1, Len(s)), chunk_size)

\* The candidates in the order of the selection, cut at the target count.
SelectTruncated(g, target) ==
    LET start_nodes == g.nodes
        bucket(b) == SelectSeq(start_nodes, LAMBDA n : Min2(Degree(g, n), 5) - 1 = b)
        all == bucket(0) \o bucket(1) \o bucket(2) \o bucket(3) \o bucket(4)
    IN IF node_count(g) > target THEN Slice(all, 1, Min2(target, Len(all)))
       ELSE start_nodes

\* Start-candidate selection of find_heuristic_path, target being
\* NUM_ENDPOINT_HEURISTIC.
SelectStartNodes(g, target) ==
    LET start_nodes == g.nodes
        bucket(b) == SelectSeq(start_nodes, LAMBDA n : Min2(Degree(g, n), 5) - 1 = b)
        key97 == [n \in Range(start_nodes) |-> n % 97]
        key101 == [n \in Range(start_nodes) |-> n % 101]
        sel1 == bucket(0)
        degree2_count == Min2(target - Len(sel1), Len(bucket(1)))
        sel2 == IF Len(sel1) < target
                THEN sel1 \o Slice(SortByKey(bucket(1), key97), 1, degree2_count)
                ELSE sel1
        high_degree == SortByKey(bucket(2) \o bucket(3) \o bucket(4), key101)
        high_degree_count == Min2(target - Len(sel2), Len(high_degree))
        sel3 == IF Len(sel2) < target
                THEN sel2 \o Slice(high_degree, 1, high_degree_count)
                ELSE sel2
    IN IF node_count(g) > target THEN sel3 ELSE start_nodes

\* degree.min(5) - 1 on a node without neighbours: the subtraction
\* overflows, or wraps to an index outside degree_buckets; a panic in both
\* builds.
SelectionPanics(g, target) ==
    node_count(g) > target /\ \E n \in Range(g.nodes) : Degree(g, n) = 0

PrunedStartNodes(g) == SelectStartNodes(g, NUM_ENDPOINT_HEURISTIC)

\* The (length, path) results of the worker chunks, in chunk order.
HeuristicResults(g, faces, thread_count) ==
    LET pruned == PrunedStartNodes(g)
        chunk_size == Max2((Len(pruned) \div thread_count) + 1, 1)
        chunks == Chunks(pruned, chunk_size)
    IN [c \in 1..Len(chunks) |-> SearchChunk(g, faces, chunks[c], NoBest)]

\* The loop that keeps the first strictly longest result.
RECURSIVE BestOfResults(_, _)
BestOfResults(results, best) ==
    IF results = << >> THEN best
    ELSE BestOfResults(Tail(results),
                       IF Head(results).len > best.len THEN Head(results) ELSE best)

(***************************************************************************)
(* Endpoint refiner.                                                       *)
(***************************************************************************)
\* The breadth-first loop: queue and visited as in the source, out the
\* nodes popped so far.
RECURSIVE SubgraphBfs(_, _, _, _, _)
SubgraphBfs(g, exclude, queue, visited, out) ==
    IF queue = << >> THEN out
    ELSE LET u == Head(queue)
             fresh == SelectSeq(get_neighbors(g, u),
                                LAMBDA n : n \notin exclude /\ n \notin visited)
         IN SubgraphBfs(g, exclude, Tail(queue) \o fresh, visited \cup Range(fresh),
                        Append(out, u))

get_subgraph_nodes_excluding_path(g, start, exclude) ==
    IF start \notin exclude THEN SubgraphBfs(g, exclude, << start >>, {start}, << >>)
    ELSE << >>

RECURSIVE SubgraphAddNodes(_, _, _)
SubgraphAddNodes(ng, sub_nodes, i) ==
    IF i > Len(sub_nodes) THEN [ok |-> TRUE, g |-> ng]
    ELSE LET r == add_node(ng, sub_nodes[i])
         IN IF ~r.ok THEN r ELSE SubgraphAddNodes(r.g, sub_nodes, i + 1)

RECURSIVE SubgraphAddEdges(_, _, _, _, _)
SubgraphAddEdges(g, ng, sub_nodes, i, k) ==
    IF i > Len(sub_nodes) THEN [ok |-> TRUE, g |-> ng]
    ELSE IF k > Degree(g, sub_nodes[i]) THEN SubgraphAddEdges(g, ng, sub_nodes, i + 1, 1)
    ELSE LET nbr == get_neighbors(g, sub_nodes[i])[k]
             r == IF Contains(sub_nodes, nbr) THEN add_edge(ng, sub_nodes[i], nbr)
                  ELSE [ok |-> TRUE, g |-> ng]
         IN IF ~r.ok THEN r ELSE SubgraphAddEdges(g, r.g, sub_nodes, i, k + 1)

build_subgraph_from_nodes(g, sub_nodes) ==
    LET r == SubgraphAddNodes(EmptyGraph, sub_nodes, 1)
    IN IF ~r.ok THEN r ELSE SubgraphAddEdges(g, r.g, sub_nodes, 1, 1)

RECURSIVE backtrack_subgraph(_, _, _, _), SubgraphNeighborsFrom(_, _, _, _, _)
backtrack_subgraph(subg, path, visited, best) ==
    IF Len(path) > best.len
    THEN SubgraphNeighborsFrom(subg, path, visited, [len |-> Len(path), path |-> path], 1)
    ELSE SubgraphNeighborsFrom(subg, path, visited, best, 1)

SubgraphNeighborsFrom(subg, path, visited, best, i) ==
    LET nbrs == get_neighbors(subg, Last(path))
    IN IF i > Len(nbrs) THEN best
       ELSE IF nbrs[i] \notin visited
       THEN LET after == backtrack_subgraph(subg, Append(path, nbrs[i]),
                                            visited \cup {nbrs[i]}, best)
            IN \* the recursive call returns before the loop moves on
               IF after.len >= best.len
               THEN SubgraphNeighborsFrom(subg, path, visited, after, i + 1)
               ELSE after
       ELSE SubgraphNeighborsFrom(subg, path, visited, best, i + 1)

exact_longest_path_subgraph(subg, start_node) ==
    backtrack_subgraph(subg, << start_node >>, {start_node},
                       [len |-> 1, path |-> << start_node >>])

\* Append the nodes of s that are not yet in acc.
RECURSIVE AppendNew(_, _)
AppendNew(acc, s) ==
    IF s = << >> THEN acc
    ELSE AppendNew(IF Contains(acc, Head(s)) THEN acc ELSE Append(acc, Head(s)), Tail(s))

\* Option<Vec<NodeId>> as a sequence of length 0 (None) or 1 (Some).
\* The final test of refine_one_endpoint_subgraph: longer and valid.
RefineAccept(g, path, new_path) ==
    IF Len(new_path) > Len(path) /\ verify_path(g, new_path) THEN << new_path >> ELSE << >>

\* The merge of the sub-path with the kept part of the path.
RefineMerge(g, path, refine_front, trim_pos, sub) ==
    IF sub.len <= 1 THEN << >>
    ELSE IF refine_front
    THEN RefineAccept(g, path, AppendNew(AppendNew(<< >>, sub.path),
                                         Slice(path, trim_pos, Len(path))))
    ELSE RefineAccept(g, path, AppendNew(Slice(path, 1, trim_pos), sub.path))

RefineInSubgraph(g, path, refine_front, trim_pos, subg) ==
    IF ~subg.ok THEN << >>
    ELSE RefineMerge(g, path, refine_front, trim_pos,
                     exact_longest_path_subgraph(subg.g, path[trim_pos]))

RefineFromNodes(g, path, refine_front, trim_pos, sub_nodes) ==
    IF Len(sub_nodes) <= 1 THEN << >>
    ELSE RefineInSubgraph(g, path, refine_front, trim_pos,
                          build_subgraph_from_nodes(g, sub_nodes))

\* The trim index, 1-based: index 4 from the front, len - 5 from the back.
TrimPos(path, refine_front) == IF refine_front THEN 5 ELSE Len(path) - 4

refine_one_endpoint_subgraph(g, path, refine_front) ==
    IF Len(path) < 6 THEN << >>
    ELSE RefineFromNodes(g, path, refine_front, TrimPos(path, refine_front),
            get_subgraph_nodes_excluding_path(g, path[TrimPos(path, refine_front)],
                                              Range(path)))

\* None taken for the empty path: refined.unwrap_or_default().
RefinedOrDefault(current_path, refined) ==
    IF refined # << >> THEN refined[1] ELSE << >>

\* if let Some(p) = refine_one_endpoint_subgraph(..) { current_path = p }
RefinedOr(current_path, refined) ==
    IF refined # << >> THEN refined[1] ELSE current_path

RefineEnd(g, current_path, refine_front) ==
    RefinedOr(current_path, refine_one_endpoint_subgraph(g, current_path, refine_front))

refine_path_endpoints_subgraph(g, current_path) ==
    IF Len(current_path) < 6 THEN current_path
    ELSE RefineEnd(g, RefineEnd(g, current_path, FALSE), TRUE)

(***************************************************************************)
(* PathFinder::find_heuristic_path on a fresh PathFinder, and              *)
(* find_longest_path's choice between the two solvers.                     *)
(***************************************************************************)
\* (len as f32 * 100.0 / node_count as f32) as u32; NaN (0/0) casts to 0.
CoveragePct(len, n) == IF n = 0 THEN 0 ELSE (len * 100) \div n

\* The second refinement run whatever the first one gained.
RefineAgainUnconditional(g, p1, coverage_pct) ==
    IF /\ coverage_pct < COVERAGE_TARGET_PCT
       /\ p1 # << >> /\ Len(p1) >= 3
    THEN refine_path_endpoints_subgraph(g, Slice(p1, 2, Len(p1) - 1))
    ELSE p1

\* The second refinement, on the path without its two end nodes, when the
\* first one gained at least one percentage point.
RefineAgain(g, p1, coverage_pct) ==
    IF /\ coverage_pct < COVERAGE_TARGET_PCT
       /\ Len(p1) * 100 >= (coverage_pct + 1) * node_count(g)
       /\ p1 # << >> /\ Len(p1) >= 3
    THEN refine_path_endpoints_subgraph(g, Slice(p1, 2, Len(p1) - 1))
    ELSE p1

\* The first refinement, when coverage is below the target.
RefineFirst(g, best_path, coverage_pct) ==
    IF coverage_pct < COVERAGE_TARGET_PCT /\ best_path # << >>
    THEN RefineAgain(g, refine_path_endpoints_subgraph(g, best_path), coverage_pct)
    ELSE RefineAgain(g, best_path, coverage_pct)

RefineBest(g, best) == RefineFirst(g, best.path, CoveragePct(best.len, node_count(g)))

find_heuristic_path(g, faces, thread_count) ==
    RefineBest(g, BestOfResults(HeuristicResults(g, faces, thread_count), NoBest))

UsesBruteForce(g) == node_count(g) <= MAX_SIZE_BRUTE_FORCE

(***************************************************************************)
(* The path improver: random_walk_improvements and its operations.  A      *)
(* random choice is a choice among all the values the generator can        *)
(* yield, so each operation is the set of paths it can return.             *)
(***************************************************************************)
\* Step caps of the random walks (never reached on graphs this small).
RANDOM_WALK_STEPS == 300
EXTEND_STEPS == 100
DETOUR_STEPS == 50
SEED_MAX_DEGREE == 3

\* Scaled from 20 fresh walks, kept when longer than 10 nodes, 200
\* annealing iterations per path and a fusion every 20 iterations.
SEED_WALKS == 1
MIN_SEED_LEN == 2
ANNEAL_ITERATIONS == 2
FUSION_PERIOD == 1

Adjacent(g, a, b) == HasNode(g, a) /\ Contains(get_neighbors(g, a), b)

\* The walks a loop of at most `steps` random steps can take from current:
\* each step moves to some unvisited neighbour and marks it; the loop ends
\* when there is none.  The walk is the sequence of the nodes pushed.
RECURSIVE RandomSteps(_, _, _, _)
RandomSteps(g, current, visited, steps) ==
    LET neighbors == {n \in Range(get_neighbors(g, current)) : n \notin visited}
    IN IF steps = 0 \/ neighbors = {} THEN { << >> }
       ELSE UNION { { << n >> \o w : w \in RandomSteps(g, n, visited \cup {n}, steps - 1) }
                    : n \in neighbors }

create_random_walk(g, start) ==
    { << start >> \o w : w \in RandomSteps(g, start, {start}, RANDOM_WALK_STEPS) }

\* extend_path from the chosen end.
ExtendFrom(g, path, from_start) ==
    { IF extension = << >> THEN path
      ELSE IF from_start THEN Reverse(extension) \o path
      ELSE path \o extension
      : extension \in RandomSteps(g, IF from_start THEN path[1] ELSE Last(path),
                                  Range(path), EXTEND_STEPS) }

extend_path(g, path) ==
    IF path = << >> THEN { << >> }
    ELSE ExtendFrom(g, path, TRUE) \cup ExtendFrom(g, path, FALSE)

\* create_detour at index idx (1-based) after the detour walk: reconnect
\* to a node of the path other than the two neighbours of idx, or give up.
DetourReconnect(g, path, idx, detour) ==
    LET reconnect_neighbors ==
            {n \in Range(get_neighbors(g, Last(detour))) :
                /\ n \in Range(path) \ {path[idx]}
                /\ n # path[idx - 1] /\ n # path[idx + 1]}
    IN IF Len(detour) > DETOUR_STEPS \/ reconnect_neighbors = {} THEN { path }
       ELSE { Slice(path, 1, idx - 1) \o detour \o << reconnect >>
                  \o Slice(path, Position(path, reconnect) + 1, Len(path))
              : reconnect \in reconnect_neighbors }

DetourAt(g, path, idx) ==
    UNION { DetourReconnect(g, path, idx, << path[idx] >> \o w)
            : w \in RandomSteps(g, path[idx], Range(path) \ {path[idx]}, DETOUR_STEPS) }

create_detour(g, path) ==
    IF Len(path) < 3 THEN { path }
    ELSE UNION { DetourAt(g, path, idx) : idx \in 2..(Len(path) - 1) }

\* reverse_segment of the positions i..j (1-based).
ReverseAt(g, path, i, j) ==
    LET new_path == Slice(path, 1, i - 1) \o Reverse(Slice(path, i, j))
                        \o Slice(path, j + 1, Len(path))
    IN IF ~Adjacent(g, new_path[i - 1], new_path[i]) THEN path
       ELSE IF ~Adjacent(g, new_path[j], new_path[j + 1]) THEN path
       ELSE new_path

reverse_segment(g, path) ==
    IF Len(path) < 4 THEN { path }
    ELSE UNION { { ReverseAt(g, path, i, j) : j \in (i + 1)..(Len(path) - 1) }
                 : i \in 2..(Len(path) - 2) }

\* recombine_with_best at the connection (i, j) (1-based).
RecombineAt(g, path1, path2, i, j) ==
    LET new_path == Slice(path1, 1, i)
                    \o (IF path1[i] = path2[j] THEN << >> ELSE << path2[j] >>)
                    \o Slice(path2, j + 1, Len(path2))
    IN IF verify_path(g, new_path) THEN new_path ELSE path1

recombine_with_best(g, path1, path2) ==
    LET connections ==
            {c \in (1..Len(path1)) \X (1..Len(path2)) :
                path1[c[1]] = path2[c[2]] \/ Adjacent(g, path1[c[1]], path2[c[2]])}
    IN IF path1 = << >> \/ path2 = << >> \/ connections = {} THEN { path1 }
       ELSE { RecombineAt(g, path1, path2, c[1], c[2]) : c \in connections }

try_connect_paths(g, path1, from_start1, path2, from_start2) ==
    LET endpoint1 == IF from_start1 THEN path1[1] ELSE Last(path1)
        endpoint2 == IF from_start2 THEN path2[1] ELSE Last(path2)
        first_part == IF from_start1 THEN Reverse(path1) ELSE path1
        skip == IF endpoint1 = endpoint2 THEN 1 ELSE 0
    IN IF path1 = << >> \/ path2 = << >> THEN << >>
       ELSE IF endpoint1 # endpoint2 /\ ~Adjacent(g, endpoint1, endpoint2) THEN << >>
       ELSE IF from_start2 THEN first_part \o Slice(path2, 1 + skip, Len(path2))
       ELSE first_part \o Reverse(Slice(path2, 1, Len(path2) - skip))

\* The loop of fuse_paths that keeps the first strictly longest fusion.
RECURSIVE BestFusion(_, _)
BestFusion(fusions, best_fusion) ==
    IF fusions = << >> THEN best_fusion
    ELSE BestFusion(Tail(fusions),
                    IF Len(Head(fusions)) > Len(best_fusion) THEN Head(fusions)
                    ELSE best_fusion)

FuseChoice(path1, path2, best_fusion) ==
    IF Len(best_fusion) > Len(path1) /\ Len(best_fusion) > Len(path2) THEN best_fusion
    ELSE IF Len(path1) >= Len(path2) THEN path1
    ELSE path2

fuse_paths(g, path1, path2) ==
    FuseChoice(path1, path2,
               BestFusion(<< try_connect_paths(g, path1, TRUE, path2, TRUE),
                             try_connect_paths(g, path1, TRUE, path2, FALSE),
                             try_connect_paths(g, path1, FALSE, path2, TRUE),
                             try_connect_paths(g, path1, FALSE, path2, FALSE) >>,
                          << >>))

\* The candidates of one annealing iteration, by operation number.
Candidates(g, operation, path, best) ==
    IF operation = 0 THEN extend_path(g, path)
    ELSE IF operation = 1 THEN create_detour(g, path)
    ELSE IF operation = 2 THEN reverse_segment(g, path)
    ELSE recombine_with_best(g, path, best)

\* An update of the global best that does not compare lengths: the result
\* could then be shorter than the input.
UpdateBestAlways(best, path) == path

\* if current_length > best_length { best_path = path.clone(); ... }
UpdateBest(best, path) == IF Len(path) > Len(best) THEN path ELSE best

\* The fusion step taken when iteration % 20 == 0 && iteration > 0; st is
\* the pair [path, best] after the acceptance step.
FusionDue(iteration) == iteration % FUSION_PERIOD = 0 /\ iteration > 0

\* The fusion taken on its length alone.
TakeFusionUnverified(g, st, fused) ==
    IF Len(fused) > Len(st.path)
    THEN [path |-> fused, best |-> UpdateBest(st.best, fused)]
    ELSE st

TakeFusion(g, st, fused) ==
    IF verify_path(g, fused) /\ Len(fused) > Len(st.path)
    THEN [path |-> fused, best |-> UpdateBest(st.best, fused)]
    ELSE st

AfterFusion(g, st, iteration) ==
    IF FusionDue(iteration) THEN TakeFusion(g, st, fuse_paths(g, st.path, st.best))
    ELSE st

\* The acceptance test: a longer candidate is accepted; otherwise the draw
\* random::<f64>() < exp((candidate - current) / temperature) decides, which
\* an equally long candidate always passes (exp(0) = 1) and a shorter one
\* passes for some draws and fails for others.
AcceptOutcomes(g, path, best, candidate, iteration) ==
    { AfterFusion(g, [path |-> candidate, best |-> UpdateBest(best, candidate)],
                  iteration) }
    \cup (IF Len(candidate) < Len(path)
          THEN { AfterFusion(g, [path |-> path, best |-> best], iteration) }
          ELSE {})

\* The states [path, best] one iteration of the annealing loop can lead to;
\* an invalid candidate skips the rest of the iteration.
AnnealOutcomes(g, path, best, iteration) ==
    UNION { UNION { IF ~verify_path(g, candidate) THEN { [path |-> path, best |-> best] }
                    ELSE AcceptOutcomes(g, path, best, candidate, iteration)
                    : candidate \in Candidates(g, operation, path, best) }
            : operation \in 0..3 }

\* The start nodes a fresh random walk can draw: the nodes of degree at
\* most 3 if there are any, else all nodes.
SeedStarts(g) ==
    IF \E n \in Range(g.nodes) : Degree(g, n) <= SEED_MAX_DEGREE
    THEN {n \in Range(g.nodes) : Degree(g, n) <= SEED_MAX_DEGREE}
    ELSE Range(g.nodes)

(***************************************************************************)
(* Inputs.  A component is written from a sequence of node numbers and an  *)
(* edge set; names are the decimal digits of the numbers.                  *)
(***************************************************************************)
RECURSIVE Decimal(_)
Decimal(n) == IF n < 10 THEN << n >> ELSE Append(Decimal(n \div 10), n % 10)

RECURSIVE AscendingSeq(_)
AscendingSeq(S) ==
    IF S = {} THEN << >>
    ELSE LET m == CHOOSE x \in S : \A y \in S : x <= y
         IN << m >> \o AscendingSeq(S \ {m})

\* Every node lists each of its neighbours once (a symmetric input).
MkComp(nodes, edges) ==
    [i \in 1..Len(nodes) |->
        [name |-> Decimal(nodes[i]),
         nbrs |-> LET adj == AscendingSeq({m \in Range(nodes) : {nodes[i], m} \in edges})
                  IN [k \in 1..Len(adj) |-> Decimal(adj[k])]]]

CycleEdges(lo, hi) == {{k, k + 1} : k \in lo..(hi - 1)} \cup {{hi, lo}}

ChainEdges(lo, hi) == {{k, k + 1} : k \in lo..(hi - 1)}

Clique(S) == {{a, b} : a, b \in S} \ {{a} : a \in S}

Numbers(lo, hi) == [i \in 1..(hi - lo + 1) |-> lo + i - 1]

\* Scenario 1: the cycle A-B-C-D-A.
Cycle4 == MkComp(Numbers(1, 4), CycleEdges(1, 4))

\* Scenario 2: the star with centre 20 and leaves 21..25.
Star5 == MkComp(Numbers(20, 25), {{20, k} : k \in 21..25})

\* Scenario 4: the chain A-B-C-D-E.
Chain5 == MkComp(Numbers(31, 35), ChainEdges(31, 35))

Chain3 == MkComp(Numbers(41, 43), ChainEdges(41, 43))

Triangle == MkComp(Numbers(51, 53), CycleEdges(51, 53))

\* Two 4-cliques {61..64} and {61, 65, 66, 67} sharing node 61, which also
\* carries the two leaves 68 and 69: the only nodes of degree <= 2 are the
\* leaves, and the longest simple paths (7 nodes, through both cliques) end
\* at clique nodes of degree 3.
Butterfly ==
    MkComp(Numbers(61, 69),
           Clique(61..64) \cup Clique({61} \cup (65..67)) \cup {{61, 68}, {61, 69}})

\* The two 2-node components below are not symmetric: 91 lists 92, 92
\* lists nobody.
Asymmetric ==
    << [name |-> Decimal(91), nbrs |-> << Decimal(92) >>],
       [name |-> Decimal(92), nbrs |-> << >>] >>

\* 81 lists 82, which is not a key of the component.
Dangling == << [name |-> Decimal(81), nbrs |-> << Decimal(82) >>] >>

\* A triangle whose names are 0, 1, 2: the centre 0 has two neighbours.
ZeroKey == MkComp(Numbers(0, 2), CycleEdges(0, 2))

\* A chain aa - a - a1 of names that are not numbers (all parse to 0).
NonNumeric ==
    << [name |-> << 10, 10 >>, nbrs |-> << << 10 >> >>],
       [name |-> << 10 >>, nbrs |-> << << 10, 10 >>, << 10, 1 >> >>],
       [name |-> << 10, 1 >>, nbrs |-> << << 10 >> >>] >>

Single == MkComp(<< 7 >>, {})

EmptyComp == << >>

\* A centre with NEIGHBOR_CAPACITY + 1 leaves.
StarOver ==
    MkComp(Numbers(100, 100 + NEIGHBOR_CAPACITY + 1),
           {{100, 100 + k} : k \in 1..(NEIGHBOR_CAPACITY + 1)})

\* A chain of MAX_NODE_COUNT + 1 nodes.
ChainOver == MkComp(Numbers(200, 200 + MAX_NODE_COUNT), ChainEdges(200, 200 + MAX_NODE_COUNT))

Catalogue ==
    { Cycle4, Star5, Chain3, Triangle, Asymmetric, Dangling, ZeroKey, NonNumeric,
      Single, EmptyComp, StarOver, ChainOver }

\* The documents submitted to process_and_solve_maze: every catalogue
\* component alone, and some of them together.
Inputs ==
    {<< c >> : c \in Catalogue}
    \cup { << Chain3, Single >>, << Single, Star5 >>, << StarOver, Single >>,
           << Dangling, Single >>, << EmptyComp, Asymmetric >>, << >> }

\* Iteration orders of a map of n keys: rotations of 1..n and of n..1.
KeyOrders(n) ==
    { [i \in 1..n |-> ((i - 1 + r) % n) + 1] : r \in 0..Min2(n - 1, MaxRotation) }
    \cup { [i \in 1..n |-> ((r + n - i) % n) + 1] : r \in 0..Min2(n - 1, MaxRotation) }
    \cup (IF n = 0 THEN {<< >>} ELSE {})

Permuted(comp, order) == [i \in 1..Len(comp) |-> comp[order[i]]]

(***************************************************************************)
(* State.                                                                  *)
(*                                                                         *)
(* process_and_solve_maze: input is the list of components, threads the    *)
(* size of the rayon pool, overflow_checks whether the build panics on     *)
(* integer overflow.  Per component i: cpc[i] is the position of its       *)
(* closure, graph[i], names[i] (id_to_name) and faces[i] its locals,       *)
(* workers[i] the parallel start-node workers of the exact solver,         *)
(* best_len[i] and best_path[i] their shared atomic and mutex-guarded      *)
(* cells, result[i] the ids returned by find_longest_path, phases[i] the   *)
(* steps the closure has run.  solutions is the collected output, outcome  *)
(* how the call ended, finished the order in which closures ended.  heur   *)
(* is the heuristic solver's answer on the same graph where the two        *)
(* solvers are compared.                                                   *)
(*                                                                         *)
(* Face finder: fgraph is the graph handed to build_faces, fstate the      *)
(* finder's state.                                                         *)
(*                                                                         *)
(* Refiner and improver: rgraph and current_path are the arguments of the  *)
(* call, rpc its position, seeds_made the fresh walks drawn, initial_paths *)
(* the paths to anneal, path_idx the one being annealed, path its current  *)
(* state, iteration the annealing iteration, walk_best the improver's      *)
(* best_path, returned the value returned (a sequence of zero or one       *)
(* path).                                                                  *)
(***************************************************************************)
VARIABLES input, threads, overflow_checks, cpc, graph, names, faces, workers,
          best_len, best_path, result, phases, solutions, outcome, heur,
          finished, fgraph, fstate,
          rgraph, current_path, rpc, seeds_made, initial_paths, path_idx, path,
          iteration, walk_best, returned

pipeVars == << input, threads, overflow_checks, cpc, graph, names, faces, workers,
               best_len, best_path, result, phases, solutions, outcome, heur,
               finished >>

faceVars == << fgraph, fstate >>

impVars == << rgraph, current_path, rpc, seeds_made, initial_paths, path_idx, path,
             iteration, walk_best, returned >>

(***************************************************************************)
(* State of the specifications of single operations.  Graph calls: ug is   *)
(* the Graph the calls are made on, ucalls the number of calls made.       *)
(***************************************************************************)
VARIABLES ug, ucalls

graphVars == << ug, ucalls >>

\* NodeBitset calls: bits is the data array of the bitset, last_op the last
\* call made on each id, bpanic whether a call has panicked.
VARIABLES bits, last_op, bpanic

bitVars == << bits, last_op, bpanic >>

\* verify_path calls: vgraph and vpath are the arguments, vresults the
\* results of the calls made with them.
VARIABLES vgraph, vpath, vresults

verVars == << vgraph, vpath, vresults >>

\* The two backtracking searches, one call frame at a time.  sgraph,
\* sfaces, smode and sschedule are what the search is started with: the
\* graph, the faces, which search it is, and the depth limits of the runs
\* from one start node.  starts are the start nodes still to do (the head
\* is the current one), slimits the depth limits still to do,
\* pre_search_best the best length when the current run began.  work_path
\* and svisited are the path and the bitset every call works on; stack
\* holds one frame per call that is in its loop over the neighbours: the
\* neighbours, the index of the next one, and the path and bitset the call
\* was entered with.  sphase is the position of the search, local_best the
\* searching worker's best length and path, shared_best the best_len and
\* best_path the exact solver's workers share, sexpired whether the
\* deadline has passed.  sentry is what the last entered call decided and
\* the best length it saw; sret the path and bitset that the call which
\* has just returned was entered with.
VARIABLES sgraph, sfaces, smode, sschedule, starts, slimits, pre_search_best,
          work_path, svisited, stack, sphase, local_best, shared_best, sexpired,
          sentry, sret

sinputs == << sgraph, sfaces, smode, sschedule >>

searchVars == << sinputs, starts, slimits, pre_search_best, work_path, svisited, stack,
                 sphase, local_best, shared_best, sexpired, sentry, sret >>

\* refine_path_endpoints_subgraph, one step at a time.  rf_graph and rf_input
\* are the arguments, rf_best the local best_path, rf_front which end is
\* being refined (refine_front), trim_node, path_nodes and sub_nodes the
\* locals of refine_one_endpoint_subgraph after the breadth-first
\* collection, sub_ran whether the last refine_one_endpoint_subgraph went
\* on to exact_longest_path_subgraph, rf_pc the position in the function,
\* rf_ret the returned path (a sequence of zero or one path).
VARIABLES rf_graph, rf_input, rf_best, rf_front, trim_node, path_nodes, sub_nodes,
          sub_ran, rf_pc, rf_ret

refVars == << rf_graph, rf_input, rf_best, rf_front, trim_node, path_nodes, sub_nodes,
              sub_ran, rf_pc, rf_ret >>

\* The worker chunks of find_heuristic_path.  hgraph and hfaces are the
\* arguments, hthreads is rayon::current_num_threads(), hchunks the chunks
\* of the start nodes, hnext[c] the index of the next start node of chunk c,
\* hlocal[c] the closure's local best length and path, hsearched the
\* searches made so far, each with its chunk and start node, hpc the
\* position of the caller and hglobal its global best length and path.
VARIABLES hgraph, hfaces, hthreads, hchunks, hnext, hlocal, hsearched, hpc, hglobal

chunkVars == << hgraph, hfaces, hthreads, hchunks, hnext, hlocal, hsearched, hpc, hglobal >>

\* The start-candidate selection of find_heuristic_path on its own: tgraph
\* is the graph, selected the start nodes chosen, tpc whether the selection
\* has been made, or has panicked.
VARIABLES tgraph, selected, tpc

startVars == << tgraph, selected, tpc >>

\* Calls of sort_neighbors_clockwise and build_graph_from_adjacency on one
\* component: adjacency is the input map, sort_checks whether the build has
\* overflow checks, sorted_adjacency the sorted map, built and built_names
\* the graph and the id-to-name table made from it.
VARIABLES adjacency, sort_checks, sorted_adjacency, built, built_names, sort_pc

sortVars == << adjacency, sort_checks, sorted_adjacency, built, built_names, sort_pc >>

\* A call of find_heuristic_path: pf_graph, pf_faces and pf_threads are its
\* inputs, pf_results the results of the worker chunks, pf_best the fields
\* global_best_length and global_best_path, pf_coverage the coverage_pct
\* computed after the search, pf_pc the position in the function.
VARIABLES pf_graph, pf_faces, pf_threads, pf_results, pf_best, pf_coverage, pf_pc

heurVars == << pf_graph, pf_faces, pf_threads, pf_results, pf_best, pf_coverage, pf_pc >>

unitVars == << graphVars, bitVars, verVars, searchVars, refVars, chunkVars, startVars, sortVars, heurVars >>

otherVars == << faceVars, impVars, unitVars >>

vars == << pipeVars, otherVars >>

Comps == 1..Len(input)

FaceIdle == fgraph = EmptyGraph /\ fstate = FaceFinderNew

PipeStart(docs) ==
    /\ input \in docs
    /\ threads \in 1..MaxThreads
    /\ overflow_checks \in BOOLEAN
    /\ cpc = [i \in Comps |-> "queued"]
    /\ graph = [i \in Comps |-> EmptyGraph]
    /\ names = [i \in Comps |-> << >>]
    /\ faces = [i \in Comps |-> << >>]
    /\ workers = [i \in Comps |-> << >>]
    /\ best_len = [i \in Comps |-> 0]
    /\ best_path = [i \in Comps |-> << >>]
    /\ result = [i \in Comps |-> << >>]
    /\ phases = [i \in Comps |-> << >>]
    /\ solutions = [i \in Comps |-> << >>]
    /\ outcome = "running"
    /\ heur = << >>
    /\ finished = << >>

ImproverIdle ==
    /\ rgraph = EmptyGraph /\ current_path = << >> /\ rpc = "idle" /\ seeds_made = 0
    /\ initial_paths = << >> /\ path_idx = 0 /\ path = << >> /\ iteration = 0
    /\ walk_best = << >> /\ returned = << >>

GraphIdle == ug = EmptyGraph /\ ucalls = 0

BitsetIdle == bits = << >> /\ last_op = << >> /\ bpanic = FALSE

VerifyIdle == vgraph = EmptyGraph /\ vpath = << >> /\ vresults = << >>

NoEntry == [outcome |-> "none", best |-> 0]

NoReturn == [path |-> << >>, visited |-> {}]

SearchIdle ==
    /\ sgraph = EmptyGraph /\ sfaces = << >> /\ smode = "idle" /\ sschedule = << >>
    /\ starts = << >> /\ slimits = << >> /\ pre_search_best = 0
    /\ work_path = << >> /\ svisited = {} /\ stack = << >> /\ sphase = "idle"
    /\ local_best = [len |-> 0, path |-> << >>]
    /\ shared_best = [len |-> 0, path |-> << >>]
    /\ sexpired = FALSE /\ sentry = NoEntry /\ sret = NoReturn

RefineIdle ==
    /\ rf_graph = EmptyGraph /\ rf_input = << >> /\ rf_best = << >> /\ rf_front = FALSE
    /\ trim_node = 0 /\ path_nodes = {} /\ sub_nodes = << >> /\ sub_ran = FALSE
    /\ rf_pc = "idle" /\ rf_ret = << >>

ChunksIdle ==
    /\ hgraph = EmptyGraph /\ hfaces = << >> /\ hthreads = 1 /\ hchunks = << >>
    /\ hnext = << >> /\ hlocal = << >> /\ hsearched = << >> /\ hpc = "idle"
    /\ hglobal = [len |-> 0, path |-> << >>]

StartsIdle == tgraph = EmptyGraph /\ selected = << >> /\ tpc = "idle"

SortIdle ==
    /\ adjacency = << >> /\ sort_checks = FALSE /\ sorted_adjacency = << >>
    /\ built = EmptyGraph /\ built_names = << >> /\ sort_pc = "idle"

HeurIdle ==
    /\ pf_graph = EmptyGraph /\ pf_faces = << >> /\ pf_threads = 1 /\ pf_results = << >>
    /\ pf_best = [len |-> 0, path |-> << >>] /\ pf_coverage = 0 /\ pf_pc = "idle"

UnitIdle == GraphIdle /\ BitsetIdle /\ VerifyIdle /\ SearchIdle /\ RefineIdle /\ ChunksIdle /\ StartsIdle /\ SortIdle /\ HeurIdle

OtherIdle == FaceIdle /\ ImproverIdle /\ UnitIdle

Init == PipeStart(Inputs) /\ OtherIdle

Log(i, what) == phases' = [phases EXCEPT ![i] = Append(@, what)]

\* sort_neighbors_clockwise and build_graph_from_adjacency; order is the
\* iteration order of the sorted map.
BuildGraph(i) ==
    /\ outcome = "running" /\ cpc[i] = "queued"
    /\ \E order \in KeyOrders(Len(input[i])) :
          LET sorted == Permuted(sort_neighbors_clockwise(input[i]), order)
          IN IF SortPanics(input[i], overflow_checks) \/ BuildPanics(sorted)
             THEN /\ cpc' = [cpc EXCEPT ![i] = "panicked"]
                  /\ UNCHANGED << graph, names >>
             ELSE /\ cpc' = [cpc EXCEPT ![i] = "built"]
                  /\ graph' = [graph EXCEPT ![i] = build_graph_from_adjacency(sorted)]
                  /\ names' = [names EXCEPT ![i] = id_to_name(sorted)]
    /\ Log(i, "Build")
    /\ UNCHANGED << input, threads, overflow_checks, faces, workers, best_len, best_path,
                    result, solutions, outcome, heur,
                    finished, otherVars >>

FindFaces(i) ==
    /\ outcome = "running" /\ cpc[i] = "built"
    /\ faces' = [faces EXCEPT ![i] = build_faces(graph[i])]
    /\ cpc' = [cpc EXCEPT ![i] = "faced"]
    /\ Log(i, "Faces")
    /\ UNCHANGED << input, threads, overflow_checks, graph, names, workers, best_len,
                    best_path, result, solutions, outcome, heur,
                    finished, otherVars >>

\* find_longest_path, large graph: the heuristic solver.
SolveHeuristic(i) ==
    /\ outcome = "running" /\ cpc[i] = "faced" /\ ~UsesBruteForce(graph[i])
    /\ result' = [result EXCEPT ![i] = find_heuristic_path(graph[i], faces[i], threads)]
    /\ cpc' = [cpc EXCEPT ![i] = "solved"]
    /\ Log(i, "Heuristic")
    /\ UNCHANGED << input, threads, overflow_checks, graph, names, faces, workers,
                    best_len, best_path, solutions, outcome, heur,
                    finished, otherVars >>

\* exact_longest_path_standard up to the par_iter: the shared cells and
\* one worker per start node.
ExactInit(i) ==
    /\ workers' = [workers EXCEPT ![i] =
                      [k \in 1..Len(ExactNodesToTry(graph[i])) |->
                          [pc |-> "idle", start |-> ExactNodesToTry(graph[i])[k],
                           local |-> NoBest, seen |-> 0, cut |-> FALSE]]]
    /\ best_len' = [best_len EXCEPT ![i] = 0]
    /\ best_path' = [best_path EXCEPT ![i] = << >>]

\* find_longest_path, small graph: the exact solver.
StartExact(i) ==
    /\ outcome = "running" /\ cpc[i] = "faced" /\ UsesBruteForce(graph[i])
    /\ ExactInit(i)
    /\ cpc' = [cpc EXCEPT ![i] = "solving"]
    /\ Log(i, "Exact")
    /\ UNCHANGED << input, threads, overflow_checks, graph, names, faces, result,
                    solutions, outcome, heur,
                    finished, otherVars >>

\* Workers that hold a pool thread: started and not finished.
InFlight ==
    Cardinality({ik \in Comps \X (0..MAX_NODE_COUNT) :
                    /\ ik[2] \in 1..Len(workers[ik[1]])
                    /\ workers[ik[1]][ik[2]].pc \in {"loaded", "storing"}})

\* A worker's private search, then its relaxed load of best_len.
ExactSearch(i, k) ==
    /\ cpc[i] = "solving" /\ workers[i][k].pc = "idle" /\ InFlight < threads
    /\ \E expired \in BOOLEAN :
          LET w == workers[i][k]
              found == ExactWorkerSearch(graph[i], w.start, expired)
          IN workers' = [workers EXCEPT ![i][k] =
                [w EXCEPT !.pc = "loaded", !.local = found, !.seen = best_len[i],
                          !.cut = (found # ExactWorkerSearch(graph[i], w.start, FALSE))]]
    /\ UNCHANGED << input, threads, overflow_checks, cpc, graph, names, faces, best_len,
                    best_path, result, phases, solutions, outcome, heur,
                    finished, otherVars >>

\* if local_best_len > current_best { best_len.store(local_best_len) ...
\* (current_best is dead after the comparison and is cleared here)
ExactStore(i, k) ==
    /\ cpc[i] = "solving" /\ workers[i][k].pc = "loaded"
    /\ IF workers[i][k].local.len > workers[i][k].seen
       THEN /\ best_len' = [best_len EXCEPT ![i] = workers[i][k].local.len]
            /\ workers' = [workers EXCEPT ![i][k].pc = "storing", ![i][k].seen = 0]
       ELSE /\ workers' = [workers EXCEPT ![i][k].pc = "done", ![i][k].seen = 0]
            /\ UNCHANGED best_len
    /\ UNCHANGED << input, threads, overflow_checks, cpc, graph, names, faces, best_path,
                    result, phases, solutions, outcome, heur,
                    finished, otherVars >>

\* ... let mut path_guard = best_path.lock(); *path_guard = local_best_path }
ExactWrite(i, k) ==
    /\ cpc[i] = "solving" /\ workers[i][k].pc = "storing"
    /\ best_path' = [best_path EXCEPT ![i] = workers[i][k].local.path]
    /\ workers' = [workers EXCEPT ![i][k].pc = "done"]
    /\ UNCHANGED << input, threads, overflow_checks, cpc, graph, names, faces, best_len,
                    result, phases, solutions, outcome, heur,
                    finished, otherVars >>

AllWorkersDone(i) == \A k \in 1..Len(workers[i]) : workers[i][k].pc = "done"

\* The par_iter has joined: best_path.lock().unwrap().clone() is returned.
ExactJoin(i) ==
    /\ cpc[i] = "solving" /\ AllWorkersDone(i)
    /\ result' = [result EXCEPT ![i] = best_path[i]]
    /\ cpc' = [cpc EXCEPT ![i] = "solved"]
    /\ UNCHANGED << input, threads, overflow_checks, graph, names, faces, workers,
                    best_len, best_path, phases, solutions, outcome, heur,
                    finished, otherVars >>

\* A conversion that reads the table one entry off: the names returned
\* are then not those of the nodes the solver walked.
NameOfIdShifted(nms, id) == nms[((id + 1) % Len(nms)) + 1]

\* id_to_name[id as usize]
NameOfId(nms, id) == nms[id + 1]

\* A collect that fills the Vec from the other end: outputs would not be
\* in input order.
CollectSlotReversed(i) == Len(input) + 1 - i

\* The slot of the collected Vec that receives component i's result.
CollectSlot(i) == i

\* Convert to strings and yield Ok(best_path) to the indexed collect.
Finish(i) ==
    /\ outcome = "running" /\ cpc[i] = "solved"
    /\ solutions' = [solutions EXCEPT ![CollectSlot(i)] =
                        [k \in 1..Len(result[i]) |-> NameOfId(names[i], result[i][k])]]
    /\ cpc' = [cpc EXCEPT ![i] = "done"]
    /\ Log(i, "Done")
    /\ finished' = Append(finished, i)
    /\ UNCHANGED << input, threads, overflow_checks, graph, names, faces, workers,
                    best_len, best_path, result, outcome, heur, otherVars >>

\* Every closure has ended: Ok(solutions), or the panic of a closure
\* resumed in the caller.  check_brute_force, called between collect and
\* Ok(solutions), only prints a benchmark table: it reads the components
\* and the solutions and changes neither, so it is part of this step.
Return ==
    /\ outcome = "running"
    /\ \A i \in Comps : cpc[i] \in {"done", "panicked"}
    /\ outcome' = IF \E i \in Comps : cpc[i] = "panicked" THEN "panic" ELSE "ok"
    /\ UNCHANGED << input, threads, overflow_checks, cpc, graph, names, faces, workers,
                    best_len, best_path, result, phases, solutions, heur,
                    finished, otherVars >>

Next ==
    \/ \E i \in Comps : BuildGraph(i)
    \/ \E i \in Comps : FindFaces(i)
    \/ \E i \in Comps : SolveHeuristic(i)
    \/ \E i \in Comps : StartExact(i)
    \/ \E i \in Comps : \E k \in 1..Len(workers[i]) : ExactSearch(i, k)
    \/ \E i \in Comps : \E k \in 1..Len(workers[i]) : ExactStore(i, k)
    \/ \E i \in Comps : \E k \in 1..Len(workers[i]) : ExactWrite(i, k)
    \/ \E i \in Comps : ExactJoin(i)
    \/ \E i \in Comps : Finish(i)
    \/ Return

Spec == Init /\ [][Next]_vars

(***************************************************************************)
(* The exact solver called directly on a prepared graph, next to the       *)
(* heuristic solver on the same graph.                                     *)
(***************************************************************************)
ExactCatalogue == { Cycle4, Star5, Chain5, Chain3, Triangle, Butterfly }

InitExact ==
    /\ PipeStart({<< c >> : c \in ExactCatalogue})
    /\ OtherIdle

\* Graph and faces as process_and_solve_maze prepares them.
Prepare(i) ==
    /\ cpc[i] = "queued"
    /\ graph' = [graph EXCEPT ![i] =
                    build_graph_from_adjacency(sort_neighbors_clockwise(input[i]))]
    /\ names' = [names EXCEPT ![i] = id_to_name(sort_neighbors_clockwise(input[i]))]
    /\ faces' = [faces EXCEPT ![i] =
                    build_faces(build_graph_from_adjacency(sort_neighbors_clockwise(input[i])))]
    /\ cpc' = [cpc EXCEPT ![i] = "faced"]
    /\ UNCHANGED << input, threads, overflow_checks, workers, best_len, best_path,
                    result, phases, solutions, outcome, heur,
                    finished, otherVars >>

\* exact_longest_path_standard(graph, deadline)
CallExact(i) ==
    /\ cpc[i] = "faced"
    /\ ExactInit(i)
    /\ cpc' = [cpc EXCEPT ![i] = "solving"]
    /\ UNCHANGED << input, threads, overflow_checks, graph, names, faces, result,
                    phases, solutions, outcome, heur,
                    finished, otherVars >>

\* find_heuristic_path(graph, faces) on the same graph.
CallHeuristic(i) ==
    /\ cpc[i] \notin {"queued", "panicked"} /\ heur = << >>
    /\ heur' = << find_heuristic_path(graph[i], faces[i], threads) >>
    /\ UNCHANGED << input, threads, overflow_checks, cpc, graph, names, faces, workers,
                    best_len, best_path, result, phases, solutions, outcome,
                    finished, otherVars >>

NextExact ==
    \/ \E i \in Comps : Prepare(i)
    \/ \E i \in Comps : CallExact(i)
    \/ \E i \in Comps : CallHeuristic(i)
    \/ \E i \in Comps : \E k \in 1..Len(workers[i]) : ExactSearch(i, k)
    \/ \E i \in Comps : \E k \in 1..Len(workers[i]) : ExactStore(i, k)
    \/ \E i \in Comps : \E k \in 1..Len(workers[i]) : ExactWrite(i, k)
    \/ \E i \in Comps : ExactJoin(i)

SpecExact == InitExact /\ [][NextExact]_vars

(***************************************************************************)
(* FaceFinder::build_faces step by step, on a graph of its own.            *)
(***************************************************************************)
\* No call of process_and_solve_maze is under way.
PipeIdle ==
    /\ input = << >> /\ threads = 1 /\ overflow_checks = FALSE
    /\ cpc = << >> /\ graph = << >> /\ names = << >> /\ faces = << >>
    /\ workers = << >> /\ best_len = << >> /\ best_path = << >> /\ result = << >>
    /\ phases = << >> /\ solutions = << >> /\ outcome = "idle" /\ heur = << >>
    /\ finished = << >>

\* A single cycle too long to be kept as a face.
LongRing == MkComp(Numbers(300, 301 + MAX_FACE_SIZE), CycleEdges(300, 301 + MAX_FACE_SIZE))

FaceCatalogue == { Cycle4, Star5, Chain3, Triangle, Butterfly, Asymmetric, StarOver, LongRing }

InitFaces ==
    /\ PipeIdle
    /\ fgraph \in {build_graph_from_adjacency(sort_neighbors_clockwise(c)) : c \in FaceCatalogue}
    /\ fstate = FaceFinderNew
    /\ ImproverIdle
    /\ UnitIdle

FaceSkip ==
    /\ FaceCanSkip(fgraph, fstate)
    /\ fstate' = FaceSkipStep(fgraph, fstate)
    /\ UNCHANGED << pipeVars, unitVars, fgraph, impVars >>

FaceStart ==
    /\ FaceCanStart(fgraph, fstate)
    /\ fstate' = FaceStartStep(fgraph, fstate)
    /\ UNCHANGED << pipeVars, unitVars, fgraph, impVars >>

FaceWalk ==
    /\ fstate.walking
    /\ fstate' = FaceWalkStep(fgraph, fstate)
    /\ UNCHANGED << pipeVars, unitVars, fgraph, impVars >>

NextFaces == FaceSkip \/ FaceStart \/ FaceWalk

SpecFaces == InitFaces /\ [][NextFaces]_vars

\* C9: every directed half-edge is traversed by exactly one walk: none is
\* left unvisited when build_faces ends, and none is traversed by walks
\* started from two different half-edges, abandoned walks included.
C9_OneWalkPerHalfEdge ==
    /\ FaceDone(fgraph, fstate) => Range(HalfEdges(fgraph)) \subseteq fstate.visited_half_edges
    /\ \A t1, t2 \in fstate.traversed : t1.he = t2.he => t1.walk = t2.walk

(***************************************************************************)
(* refine_path_endpoints_subgraph and random_walk_improvements, each       *)
(* called on a graph and a path of its own.                                *)
(***************************************************************************)
\* Scenario graphs of the improver: a triangle with a tail, and a square.
Lollipop == MkComp(Numbers(71, 74), CycleEdges(71, 73) \cup {{73, 74}})

GraphOf(comp) == build_graph_from_adjacency(sort_neighbors_clockwise(comp))

\* The paths the exhaustive search finds from each node of g.
SearchPaths(g) == {ExactWorkerSearch(g, n, FALSE).path : n \in Range(g.nodes)}

\* Arguments of random_walk_improvements: the empty path, single nodes,
\* and searched paths cut to two nodes.
ImproveCases ==
    { [g |-> GraphOf(c), p |-> q] : c \in {Lollipop}, q \in {<< >>} }
    \cup UNION { { [g |-> GraphOf(c), p |-> Slice(q, 1, k)] :
                     q \in SearchPaths(GraphOf(c)), k \in 1..2 }
                 : c \in {Lollipop, Cycle4} }
    \cup { [g |-> EmptyGraph, p |-> << >>] }

\* Arguments of refine_path_endpoints_subgraph: searched paths, whole and
\* without their last node, on graphs with paths of six nodes and more.
RefineCases ==
    UNION { { [g |-> GraphOf(c), p |-> Slice(q, 1, Len(q) - k)] :
                q \in SearchPaths(GraphOf(c)), k \in 0..1 }
            : c \in {Butterfly, LongRing, Chain5} }

InitImprove ==
    /\ PipeIdle /\ FaceIdle /\ UnitIdle
    /\ \/ \E c \in ImproveCases :
             rgraph = c.g /\ current_path = c.p /\ rpc = "call_improve"
       \/ \E c \in RefineCases :
             rgraph = c.g /\ current_path = c.p /\ rpc = "call_refine"
    /\ seeds_made = 0 /\ initial_paths = << >> /\ path_idx = 0 /\ path = << >>
    /\ iteration = 0 /\ walk_best = << >> /\ returned = << >>

CallRefine ==
    /\ rpc = "call_refine"
    /\ returned' = << refine_path_endpoints_subgraph(rgraph, current_path) >>
    /\ rpc' = "returned"
    /\ UNCHANGED << pipeVars, unitVars, faceVars, rgraph, current_path, seeds_made, initial_paths,
                    path_idx, path, iteration, walk_best >>

\* random_walk_improvements up to the loop of fresh walks.
CallImprove ==
    /\ rpc = "call_improve"
    /\ walk_best' = current_path
    /\ initial_paths' = << current_path >>
    /\ rpc' = "seeding"
    /\ UNCHANGED << pipeVars, unitVars, faceVars, rgraph, current_path, seeds_made, path_idx, path,
                    iteration, returned >>

\* One fresh random walk; drawing a start node from an empty graph panics.
SeedWalk ==
    /\ rpc = "seeding" /\ seeds_made < SEED_WALKS
    /\ IF rgraph.nodes = << >>
       THEN rpc' = "panicked" /\ UNCHANGED << seeds_made, initial_paths >>
       ELSE /\ \E start \in SeedStarts(rgraph) : \E walk \in create_random_walk(rgraph, start) :
                  initial_paths' = IF Len(walk) > MIN_SEED_LEN
                                   THEN Append(initial_paths, walk) ELSE initial_paths
            /\ seeds_made' = seeds_made + 1
            /\ UNCHANGED rpc
    /\ UNCHANGED << pipeVars, unitVars, faceVars, rgraph, current_path, path_idx, path, iteration,
                    walk_best, returned >>

\* The first path enters the annealing loop.
BeginAnneal ==
    /\ rpc = "seeding" /\ seeds_made = SEED_WALKS
    /\ rpc' = "annealing" /\ path_idx' = 1 /\ path' = initial_paths[1] /\ iteration' = 0
    /\ UNCHANGED << pipeVars, unitVars, faceVars, rgraph, current_path, seeds_made, initial_paths,
                    walk_best, returned >>

\* One iteration of the annealing loop.
AnnealStep ==
    /\ rpc = "annealing" /\ iteration < ANNEAL_ITERATIONS
    /\ \E st \in AnnealOutcomes(rgraph, path, walk_best, iteration) :
          path' = st.path /\ walk_best' = st.best
    /\ iteration' = iteration + 1
    /\ UNCHANGED << pipeVars, unitVars, faceVars, rgraph, current_path, rpc, seeds_made,
                    initial_paths, path_idx, returned >>

NextPath ==
    /\ rpc = "annealing" /\ iteration = ANNEAL_ITERATIONS /\ path_idx < Len(initial_paths)
    /\ path_idx' = path_idx + 1 /\ path' = initial_paths[path_idx + 1] /\ iteration' = 0
    /\ UNCHANGED << pipeVars, unitVars, faceVars, rgraph, current_path, rpc, seeds_made,
                    initial_paths, walk_best, returned >>

\* All paths annealed: best_path is returned.
ReturnBest ==
    /\ rpc = "annealing" /\ iteration = ANNEAL_ITERATIONS /\ path_idx = Len(initial_paths)
    /\ returned' = << walk_best >> /\ rpc' = "returned"
    /\ UNCHANGED << pipeVars, unitVars, faceVars, rgraph, current_path, seeds_made, initial_paths,
                    path_idx, path, iteration, walk_best >>

\* Instant::now() >= time_limit at a loop head: that loop and every later
\* one break, and best_path is returned.
TimeUp ==
    /\ rpc \in {"seeding", "annealing"}
    /\ returned' = << walk_best >> /\ rpc' = "returned"
    /\ UNCHANGED << pipeVars, unitVars, faceVars, rgraph, current_path, seeds_made, initial_paths,
                    path_idx, path, iteration, walk_best >>

NextImprove ==
    \/ CallRefine \/ CallImprove \/ SeedWalk \/ BeginAnneal \/ AnnealStep \/ NextPath
    \/ ReturnBest \/ TimeUp

SpecImprove == InitImprove /\ [][NextImprove]_vars

\* C8: the path returned by refine_path_endpoints_subgraph, and the path
\* returned by random_walk_improvements, is never shorter than the path
\* given, whatever the random choices.
C8_NeverShorter == returned # << >> => Len(returned[1]) >= Len(current_path)

\* The improver has returned after its annealed path had become shorter
\* than the path it was given.
C8_Witness ==
    /\ rpc = "returned" /\ path_idx >= 1
    /\ Len(path) < Len(current_path)

(***************************************************************************)
(* Properties of the returned paths.                                       *)
(***************************************************************************)
Returned == outcome = "ok"

\* Name a lists name b as a neighbour in the input component.
Lists(comp, a, b) == a \in Keys(comp) /\ Contains(EntryOf(comp, a).nbrs, b)

IsInputEdge(comp, a, b) == Lists(comp, a, b) \/ Lists(comp, b, a)

\* C1: no returned path contains a node name more than once, whichever
\* solver produced it and whatever the interleaving of the workers.
C1_NoRepeatedName == \A i \in Comps : IsDistinct(solutions[i])

\* A call has returned a path of four nodes found by the exact solver's
\* parallel workers.
C1_Witness ==
    /\ Returned
    /\ \E i \in Comps : Len(solutions[i]) >= 4 /\ Len(workers[i]) >= 2

\* C2: every consecutive pair of names of a returned path is an edge of the
\* input component: one of the two names lists the other.
C2_StepsAreInputEdges ==
    \A i \in Comps : \A k \in 1..(Len(solutions[i]) - 1) :
        IsInputEdge(input[i], solutions[i][k], solutions[i][k + 1])

\* A returned path uses an edge that only one of its two ends lists.
C2_Witness ==
    /\ Returned
    /\ \E i \in Comps : \E k \in 1..(Len(solutions[i]) - 1) :
          ~Lists(input[i], solutions[i][k + 1], solutions[i][k])

\* The names of the path find_longest_path returned for component i.
SolutionOf(i) == [k \in 1..Len(result[i]) |-> names[i][result[i][k] + 1]]

\* C4: one output per input component, the i-th output being the solution
\* of the i-th input, in whatever order the parallel solves finish.
C4_OutputsInInputOrder ==
    Returned =>
        /\ Len(solutions) = Len(input)
        /\ \A i \in Comps : /\ solutions[i] = SolutionOf(i)
                            /\ Range(solutions[i]) \subseteq Keys(input[i])

\* Two components were returned, the second having finished first, with
\* different solutions.
C4_Witness ==
    /\ Returned /\ Len(input) = 2
    /\ finished = << 2, 1 >>
    /\ solutions[1] # << >> /\ solutions[2] # << >> /\ solutions[1] # solutions[2]

\* C7: a result is returned only after it has passed the validator (with
\* one retry of the solve after a failed validation).  The closure of
\* process_and_solve_maze has no validation step: its steps are Build,
\* Faces, Exact or Heuristic, Done.
C7_ValidatedBeforeReturn ==
    Returned => \A i \in Comps : \E k \in 1..Len(phases[i]) : phases[i][k] = "Validate"

\* The component exceeds a capacity of Graph: more keys than MAX_NODE_COUNT
\* or a node listing more neighbours than its list can hold.
OverCapacity(comp) ==
    \/ Len(comp) > MAX_NODE_COUNT
    \/ \E e \in 1..Len(comp) : Len(comp[e].nbrs) > NEIGHBOR_CAPACITY

\* C10: a component over capacity is reported as failed; a graph from which
\* nodes or edges were dropped is never solved.
C10_NoSilentTruncation ==
    \A i \in Comps : OverCapacity(input[i]) => cpc[i] \notin {"solving", "solved", "done"}

(***************************************************************************)
(* Properties of the exact solver.                                         *)
(***************************************************************************)
\* The largest local_best_len of the workers of component i.
MaxLocal(i) ==
    IF workers[i] = << >> THEN 0
    ELSE CHOOSE m \in {workers[i][k].local.len : k \in 1..Len(workers[i])} :
            \A k \in 1..Len(workers[i]) : workers[i][k].local.len <= m

ExactReturned(i) == cpc[i] = "solved" /\ workers[i] # << >>

NoDeadlineCut(i) == \A k \in 1..Len(workers[i]) : ~workers[i][k].cut

\* The number of nodes of a longest simple path of g: the exhaustive
\* search from every node.
LongestSimplePath(g) ==
    IF g.nodes = << >> THEN 0
    ELSE CHOOSE m \in {ExactWorkerSearch(g, n, FALSE).len : n \in Range(g.nodes)} :
            \A n \in Range(g.nodes) : ExactWorkerSearch(g, n, FALSE).len <= m

\* C3: whatever the interleaving of the workers' load of best_len, store of
\* best_len and locked write of best_path, the returned path has the
\* largest local_best_len of any worker.
C3_ReturnsMaxLocal ==
    \A i \in Comps : ExactReturned(i) => Len(result[i]) = MaxLocal(i)

\* C5: without deadline expiry the exact solver returns a longest simple
\* path of the graph.  Stated for the runs in which no worker's improvement
\* was overwritten, so that it does not rest on C3.
C5_ExactIsLongest ==
    \A i \in Comps :
        (ExactReturned(i) /\ NoDeadlineCut(i) /\ Len(result[i]) = MaxLocal(i))
            => Len(result[i]) = LongestSimplePath(graph[i])

\* C6: on the same graph the exact solver's path is at least as long as
\* find_heuristic_path's.  Stated for the runs in which no worker's
\* improvement was overwritten, so that it does not rest on C3.
C6_ExactAtLeastHeuristic ==
    \A i \in Comps :
        (ExactReturned(i) /\ NoDeadlineCut(i) /\ Len(result[i]) = MaxLocal(i)
            /\ heur # << >>)
            => Len(result[i]) >= Len(heur[1])

(***************************************************************************)
(* Graph under its two mutating calls.  The calls are add_node(id) and     *)
(* add_edge(from, to), made on the empty graph or on a graph as            *)
(* build_graph_from_adjacency leaves it: StarFull has a node whose         *)
(* neighbour list is full, ChainFull fills the node map.  The ids of the   *)
(* calls are the first ids and the first id that is new to each of the     *)
(* two.  The result of a call is dropped here as it is there; the graph    *)
(* is kept as the call left it.                                            *)
(***************************************************************************)
MaxGraphId == 2

MaxGraphCalls == 3

StarFull ==
    MkComp(Numbers(100, 100 + NEIGHBOR_CAPACITY),
           {{100, 100 + k} : k \in 1..NEIGHBOR_CAPACITY})

ChainFull ==
    MkComp(Numbers(200, 199 + MAX_NODE_COUNT), ChainEdges(200, 199 + MAX_NODE_COUNT))

GraphIds == (0..MaxGraphId) \cup {NEIGHBOR_CAPACITY + 1, MAX_NODE_COUNT}

exceptGraph == << pipeVars, faceVars, impVars, bitVars, verVars, searchVars, refVars, chunkVars, startVars, sortVars, heurVars >>

InitGraph ==
    /\ PipeIdle /\ FaceIdle /\ ImproverIdle /\ BitsetIdle /\ VerifyIdle /\ SearchIdle /\ RefineIdle /\ ChunksIdle /\ StartsIdle /\ SortIdle /\ HeurIdle
    /\ ug \in {EmptyGraph, GraphOf(StarFull), GraphOf(ChainFull)}
    /\ ucalls = 0

GraphAddNode ==
    /\ ucalls < MaxGraphCalls
    /\ \E id \in GraphIds : ug' = add_node(ug, id).g
    /\ ucalls' = ucalls + 1
    /\ UNCHANGED exceptGraph

GraphAddEdge ==
    /\ ucalls < MaxGraphCalls
    /\ \E from \in GraphIds : \E to \in GraphIds : ug' = add_edge(ug, from, to).g
    /\ ucalls' = ucalls + 1
    /\ UNCHANGED exceptGraph

NextGraph == GraphAddNode \/ GraphAddEdge

SpecGraph == InitGraph /\ [][NextGraph]_vars

Lists2(g, u, v) == Contains(get_neighbors(g, u), v)

\* C11: after any sequence of add_node and add_edge calls the adjacency is
\* symmetric, no neighbour list holds a node twice, and repeating an
\* add_edge that succeeded changes nothing.
C11_SymmetricNoDuplicates ==
    /\ \A u \in Range(ug.nodes) : \A v \in Range(ug.nodes) :
          Lists2(ug, u, v) <=> Lists2(ug, v, u)
    /\ \A u \in Range(ug.nodes) : IsDistinct(get_neighbors(ug, u))
    /\ \A from \in GraphIds : \A to \in GraphIds :
          add_edge(ug, from, to).ok
             => add_edge(add_edge(ug, from, to).g, from, to).g = add_edge(ug, from, to).g

(***************************************************************************)
(* NodeBitset: an array of BITSET_ARRAY_SIZE words, bit idx % WORD_BITS of *)
(* word idx / WORD_BITS standing for the id idx.  The source has 64-bit    *)
(* words and MAX_NODE_COUNT / 64 = 32 of them, which hold exactly          *)
(* MAX_NODE_COUNT bits; here the words are fewer and narrower, wide        *)
(* enough for the array to hold MAX_NODE_COUNT bits.  A word is a number,  *)
(* and the bit operations are computed on it.                              *)
(***************************************************************************)
BITSET_ARRAY_SIZE == 2

WORD_BITS == (MAX_NODE_COUNT + BITSET_ARRAY_SIZE - 1) \div BITSET_ARRAY_SIZE

RECURSIVE Pow2(_)
Pow2(b) == IF b = 0 THEN 1 ELSE 2 * Pow2(b - 1)

\* (word & (1 << bit)) != 0
BitTest(word, bit) == (word \div Pow2(bit)) % 2 = 1

\* word | (1 << bit)
BitOr(word, bit) == IF BitTest(word, bit) THEN word ELSE word + Pow2(bit)

\* word & !(1 << bit)
BitAndNot(word, bit) == IF BitTest(word, bit) THEN word - Pow2(bit) ELSE word

RECURSIVE count_ones(_)
count_ones(word) == IF word = 0 THEN 0 ELSE (word % 2) + count_ones(word \div 2)

NodeBitsetNew == [a \in 0..(BITSET_ARRAY_SIZE - 1) |-> 0]

\* The explicit panic for an id that is too large, and the panic of
\* indexing the array out of its bounds.
BitsetPanics(node_id) ==
    node_id >= MAX_NODE_COUNT \/ node_id \div WORD_BITS >= BITSET_ARRAY_SIZE

\* data[arr_idx] = 1 << bit_idx: the word is overwritten.
SetOverwritingWord(data, node_id) ==
    [data EXCEPT ![node_id \div WORD_BITS] = Pow2(node_id % WORD_BITS)]

set(data, node_id) ==
    [data EXCEPT ![node_id \div WORD_BITS] = BitOr(@, node_id % WORD_BITS)]

clear(data, node_id) ==
    [data EXCEPT ![node_id \div WORD_BITS] = BitAndNot(@, node_id % WORD_BITS)]

contains(data, node_id) == BitTest(data[node_id \div WORD_BITS], node_id % WORD_BITS)

RECURSIVE SumWords(_, _)
SumWords(data, a) ==
    IF a >= BITSET_ARRAY_SIZE THEN 0 ELSE count_ones(data[a]) + SumWords(data, a + 1)

count(data) == SumWords(data, 0)

\* The ids the calls are made with: the first and the last bit of each of
\* the first two words, the last id, and the first id that is too large.
BitsetIds == {0, 1, WORD_BITS - 1, WORD_BITS, MAX_NODE_COUNT - 1, MAX_NODE_COUNT}

exceptBitset == << pipeVars, faceVars, impVars, graphVars, verVars, searchVars, refVars, chunkVars, startVars, sortVars, heurVars >>

InitBitset ==
    /\ PipeIdle /\ FaceIdle /\ ImproverIdle /\ GraphIdle /\ VerifyIdle /\ SearchIdle /\ RefineIdle /\ ChunksIdle /\ StartsIdle /\ SortIdle /\ HeurIdle
    /\ bits = NodeBitsetNew
    /\ last_op = [n \in 0..(MAX_NODE_COUNT - 1) |-> "none"]
    /\ bpanic = FALSE

BitsetSet ==
    /\ ~bpanic
    /\ \E n \in BitsetIds :
          IF BitsetPanics(n) THEN bpanic' = TRUE /\ UNCHANGED << bits, last_op >>
          ELSE /\ bits' = set(bits, n)
               /\ last_op' = [last_op EXCEPT ![n] = "set"]
               /\ UNCHANGED bpanic
    /\ UNCHANGED exceptBitset

BitsetClear ==
    /\ ~bpanic
    /\ \E n \in BitsetIds :
          IF BitsetPanics(n) THEN bpanic' = TRUE /\ UNCHANGED << bits, last_op >>
          ELSE /\ bits' = clear(bits, n)
               /\ last_op' = [last_op EXCEPT ![n] = "clear"]
               /\ UNCHANGED bpanic
    /\ UNCHANGED exceptBitset

NextBitset == BitsetSet \/ BitsetClear

SpecBitset == InitBitset /\ [][NextBitset]_vars

\* C12: for ids below MAX_NODE_COUNT, contains(n) is true iff the last call
\* on n was set(n) (so a call on n leaves contains(m) alone for m # n),
\* count() is the number of ids that are set, and set(n) followed by
\* clear(n) leaves contains(n) false.
C12_BitsetTracksLastCall ==
    bits # << >> =>
        /\ \A n \in 0..(MAX_NODE_COUNT - 1) : contains(bits, n) <=> last_op[n] = "set"
        /\ count(bits) = Cardinality({n \in 0..(MAX_NODE_COUNT - 1) : last_op[n] = "set"})
        /\ \A n \in 0..(MAX_NODE_COUNT - 1) : ~contains(clear(set(bits, n), n), n)

\* Ids of both words are set, another id was set and then cleared.
C12_Witness ==
    /\ bits # << >>
    /\ contains(bits, 1) /\ contains(bits, WORD_BITS) /\ contains(bits, MAX_NODE_COUNT - 1)
    /\ last_op[0] = "clear" /\ ~contains(bits, 0)
    /\ count(bits) = 3

(***************************************************************************)
(* verify_path called, once and again, on a graph and a path of its own:   *)
(* every sequence of at most MaxVerifyLen ids, ids that repeat and ids     *)
(* that are not nodes of the graph included.  Both arguments are shared    *)
(* references, which the function cannot write through.                    *)
(***************************************************************************)
MaxVerifyLen == 3

MaxVerifyId == 3

MaxVerifyCalls == 2

RECURSIVE SeqsUpTo(_, _)
SeqsUpTo(S, n) ==
    IF n = 0 THEN { << >> }
    ELSE SeqsUpTo(S, n - 1)
         \cup { Append(q, x) : q \in {r \in SeqsUpTo(S, n - 1) : Len(r) = n - 1}, x \in S }

VerifyGraphs == { GraphOf(c) : c \in {Triangle, Chain3, Star5, Asymmetric, EmptyComp} }

exceptVerify == << pipeVars, faceVars, impVars, graphVars, bitVars, searchVars, refVars, chunkVars, startVars, sortVars, heurVars >>

InitVerify ==
    /\ PipeIdle /\ FaceIdle /\ ImproverIdle /\ GraphIdle /\ BitsetIdle /\ SearchIdle /\ RefineIdle /\ ChunksIdle /\ StartsIdle /\ SortIdle /\ HeurIdle
    /\ vgraph \in VerifyGraphs
    /\ vpath \in SeqsUpTo(0..MaxVerifyId, MaxVerifyLen)
    /\ vresults = << >>

CallVerify ==
    /\ Len(vresults) < MaxVerifyCalls
    /\ vresults' = Append(vresults, verify_path(vgraph, vpath))
    /\ UNCHANGED << vgraph, vpath, exceptVerify >>

NextVerify == CallVerify

SpecVerify == InitVerify /\ [][NextVerify]_vars

\* C13: verify_path returns false iff some node occurs twice in the path or
\* some node of the path does not list the node that follows it; it
\* returns true otherwise, the empty path included, and a second call on
\* the same arguments returns what the first returned.
C13_FalseIffRepeatOrNonEdge ==
    \A k \in 1..Len(vresults) :
        vresults[k] = FALSE <=>
            \/ \E i \in 1..Len(vpath) : \E j \in 1..Len(vpath) : i # j /\ vpath[i] = vpath[j]
            \/ \E i \in 1..(Len(vpath) - 1) : ~Lists2(vgraph, vpath[i], vpath[i + 1])

\* verify_path has twice refused a path that repeats its first node at its
\* end and whose every step is an edge.
C13_Witness ==
    /\ Len(vresults) = 2 /\ vresults[2] = FALSE
    /\ Len(vpath) = 3 /\ vpath[1] = vpath[3]
    /\ \A i \in 1..2 : Lists2(vgraph, vpath[i], vpath[i + 1])

(***************************************************************************)
(* backtrack_exact_standard and bnb_search_local, step by step.  A call    *)
(* is entered (its tests, its update of the best, its list of              *)
(* neighbours), takes its neighbours one at a time (mark, push, recursive  *)
(* call), and returns; its caller then pops and unmarks.  The exact        *)
(* search is run as exact_longest_path_standard runs it on one thread:     *)
(* the start nodes one after another, each with a local best of its own,   *)
(* published to the shared best when its search returns.  The bounded      *)
(* search is run as one chunk of find_heuristic_path runs it: the start    *)
(* nodes one after another with the chunk's local best, each through the   *)
(* depth limits of the schedule.                                           *)
(***************************************************************************)
exceptSearch == << pipeVars, faceVars, impVars, graphVars, bitVars, verVars, refVars, chunkVars, startVars, sortVars, heurVars >>

\* The periodic test of the deadline.
DeadlineCutsEveryCall(path_len, expired) == expired

DeadlineCuts(path_len, expired) == path_len % DEADLINE_CADENCE = 0 /\ expired

\* visited.set(neighbor) and visited.clear(neighbor) on ids the bitset holds.
Mark(visited, neighbor) == visited \cup {neighbor}

UnmarkNothing(visited, neighbor) == visited

Unmark(visited, neighbor) == visited \ {neighbor}

Frame(nbrs) ==
    [nbrs |-> nbrs, k |-> 1, entry_path |-> work_path, entry_visited |-> svisited]

TopFrame == stack[Len(stack)]

Longer(best, p) == IF Len(p) > best.len THEN [len |-> Len(p), path |-> p] ELSE best

ReturnsAtOnce(why) ==
    /\ sphase' = "return"
    /\ sentry' = [outcome |-> why, best |-> local_best.len]
    /\ sret' = [path |-> work_path, visited |-> svisited]
    /\ UNCHANGED << local_best, stack >>

EntersLoop(nbrs) ==
    /\ local_best' = Longer(local_best, work_path)
    /\ stack' = Append(stack, Frame(nbrs))
    /\ sphase' = "loop"
    /\ sentry' = [outcome |-> "kept", best |-> local_best.len]
    /\ UNCHANGED sret

\* The worker closure up to its call of backtrack_exact_standard.
ExactBegin ==
    /\ smode = "exact" /\ sphase = "begin"
    /\ local_best' = NoBest
    /\ svisited' = Mark({}, Head(starts))
    /\ work_path' = << Head(starts) >>
    /\ sphase' = "call" /\ sentry' = NoEntry
    /\ UNCHANGED << sinputs, starts, slimits, pre_search_best, stack, shared_best,
                    sexpired, sret, exceptSearch >>

ExactEnter ==
    /\ smode = "exact" /\ sphase = "call"
    /\ IF DeadlineCuts(Len(work_path), sexpired)
       THEN ReturnsAtOnce("deadline")
       ELSE EntersLoop(get_neighbors(sgraph, Last(work_path)))
    /\ UNCHANGED << sinputs, starts, slimits, pre_search_best, work_path, svisited,
                    shared_best, sexpired, exceptSearch >>

\* One iteration of the loop over the neighbours: a visited neighbour is
\* passed over, an unvisited one is marked, pushed and searched.
ExactStep ==
    /\ smode = "exact" /\ sphase = "loop" /\ TopFrame.k <= Len(TopFrame.nbrs)
    /\ stack' = [stack EXCEPT ![Len(stack)].k = @ + 1]
    /\ IF TopFrame.nbrs[TopFrame.k] \notin svisited
       THEN /\ svisited' = Mark(svisited, TopFrame.nbrs[TopFrame.k])
            /\ work_path' = Append(work_path, TopFrame.nbrs[TopFrame.k])
            /\ sphase' = "call"
       ELSE UNCHANGED << svisited, work_path, sphase >>
    /\ sentry' = NoEntry
    /\ UNCHANGED << sinputs, starts, slimits, pre_search_best, local_best, shared_best,
                    sexpired, sret, exceptSearch >>

\* The end of the worker closure: load, compare, store, locked write.
ExactPublish ==
    /\ smode = "exact" /\ sphase = "return" /\ stack = << >>
    /\ shared_best' = IF local_best.len > shared_best.len THEN local_best ELSE shared_best
    /\ starts' = Tail(starts)
    /\ sphase' = IF Tail(starts) = << >> THEN "done" ELSE "begin"
    /\ sentry' = NoEntry
    /\ UNCHANGED << sinputs, slimits, pre_search_best, work_path, svisited, stack,
                    local_best, sexpired, sret, exceptSearch >>

\* start_time.elapsed() > time_limit becomes true, at any moment.
Expire ==
    /\ smode = "exact" /\ sphase \in {"begin", "call", "loop", "return"} /\ ~sexpired
    /\ sexpired' = TRUE
    /\ UNCHANGED << sinputs, starts, slimits, pre_search_best, work_path, svisited, stack,
                    sphase, local_best, shared_best, sentry, sret, exceptSearch >>

\* The chunk closure's set-up of one start node.
BnbBegin ==
    /\ smode = "bnb" /\ sphase = "begin"
    /\ svisited' = Mark({}, Head(starts))
    /\ work_path' = << Head(starts) >>
    /\ slimits' = sschedule
    /\ pre_search_best' = local_best.len
    /\ sphase' = "call" /\ sentry' = NoEntry
    /\ UNCHANGED << sinputs, starts, stack, local_best, shared_best, sexpired, sret,
                    exceptSearch >>

BnbEnter ==
    /\ smode = "bnb" /\ sphase = "call"
    /\ IF Len(stack) >= Head(slimits)
       THEN ReturnsAtOnce("depth")
       ELSE IF sfaces # << >>
               /\ BnbPrunes(Len(work_path),
                            enhanced_face_heuristic(sgraph, work_path, svisited, sfaces),
                            local_best.len)
       THEN ReturnsAtOnce("pruned")
       ELSE EntersLoop(OrderedNeighbors(sgraph,
                           SelectSeq(get_neighbors(sgraph, Last(work_path)),
                                     LAMBDA n : n \notin svisited),
                           Len(stack)))
    /\ UNCHANGED << sinputs, starts, slimits, pre_search_best, work_path, svisited,
                    shared_best, sexpired, exceptSearch >>

BnbStep ==
    /\ smode = "bnb" /\ sphase = "loop" /\ TopFrame.k <= Len(TopFrame.nbrs)
    /\ stack' = [stack EXCEPT ![Len(stack)].k = @ + 1]
    /\ svisited' = Mark(svisited, TopFrame.nbrs[TopFrame.k])
    /\ work_path' = Append(work_path, TopFrame.nbrs[TopFrame.k])
    /\ sphase' = "call" /\ sentry' = NoEntry
    /\ UNCHANGED << sinputs, starts, slimits, pre_search_best, local_best, shared_best,
                    sexpired, sret, exceptSearch >>

\* Every run is followed by the next deeper one.
DeepensAlways(best_length, pre_best) == TRUE

\* The two tests after a depth-limited run: continue, or else break unless
\* the loop body runs to its end.
Deepens(best_length, pre_best) ==
    best_length > pre_best + 8 \/ ~(best_length <= pre_best + 1)

\* A run from the start node has returned: the next depth limit, or the
\* next start node.
BnbRunEnd ==
    /\ smode = "bnb" /\ sphase = "return" /\ stack = << >>
    /\ IF Len(slimits) > 1 /\ Deepens(local_best.len, pre_search_best)
       THEN /\ slimits' = Tail(slimits)
            /\ pre_search_best' = local_best.len
            /\ sphase' = "call"
            /\ UNCHANGED starts
       ELSE /\ starts' = Tail(starts)
            /\ sphase' = IF Tail(starts) = << >> THEN "done" ELSE "begin"
            /\ UNCHANGED << slimits, pre_search_best >>
    /\ sentry' = NoEntry
    /\ UNCHANGED << sinputs, work_path, svisited, stack, local_best, shared_best,
                    sexpired, sret, exceptSearch >>

\* The loop over the neighbours is over: the call returns.
SearchReturn ==
    /\ sphase = "loop" /\ TopFrame.k > Len(TopFrame.nbrs)
    /\ stack' = SubSeq(stack, 1, Len(stack) - 1)
    /\ sret' = [path |-> TopFrame.entry_path, visited |-> TopFrame.entry_visited]
    /\ sphase' = "return" /\ sentry' = NoEntry
    /\ UNCHANGED << sinputs, starts, slimits, pre_search_best, work_path, svisited,
                    local_best, shared_best, sexpired, exceptSearch >>

\* After the recursive call: path.pop() and visited.clear(neighbor).
SearchBacktrack ==
    /\ sphase = "return" /\ stack # << >>
    /\ work_path' = SubSeq(work_path, 1, Len(work_path) - 1)
    /\ svisited' = Unmark(svisited, TopFrame.nbrs[TopFrame.k - 1])
    /\ sphase' = "loop" /\ sentry' = NoEntry
    /\ UNCHANGED << sinputs, starts, slimits, pre_search_best, stack, local_best,
                    shared_best, sexpired, sret, exceptSearch >>

NextSearch ==
    \/ ExactBegin \/ ExactEnter \/ ExactStep \/ ExactPublish \/ Expire
    \/ BnbBegin \/ BnbEnter \/ BnbStep \/ BnbRunEnd
    \/ SearchReturn \/ SearchBacktrack

\* A triangle with a tail of three nodes: the walk round the outside is
\* too long to be kept as a face, so the tail nodes are in no face.
TailedTriangle == MkComp(Numbers(401, 406), CycleEdges(401, 403) \cup ChainEdges(403, 406))

\* Depth limits of the runs from one start node: the single full-depth run
\* of a small graph, and a deepening schedule short enough for a small
\* graph to reach its limits.
SearchSchedules ==
    { << FULL_DEPTH_LIMIT >>, << 2, 4, FULL_DEPTH_LIMIT >>, << 9, 10, FULL_DEPTH_LIMIT >> }

ExactSearchGraphs == { GraphOf(c) : c \in {Triangle, Cycle4, Star5, Butterfly, ChainFull} }

\* A cycle too long to be kept as a face, with a triangle on one of its
\* nodes: the triangle is a face, the other nodes of the cycle are in none.
RingWithTriangle ==
    MkComp(Numbers(500, 503 + MAX_FACE_SIZE),
           CycleEdges(500, 501 + MAX_FACE_SIZE)
           \cup {{501 + MAX_FACE_SIZE, 502 + MAX_FACE_SIZE},
                 {502 + MAX_FACE_SIZE, 503 + MAX_FACE_SIZE},
                 {503 + MAX_FACE_SIZE, 501 + MAX_FACE_SIZE}})

BnbSearchGraphs ==
    { GraphOf(c) : c \in {Cycle4, Lollipop, TailedTriangle, Butterfly, RingWithTriangle,
                         ChainFull} }

InitSearch ==
    /\ PipeIdle /\ FaceIdle /\ ImproverIdle /\ GraphIdle /\ BitsetIdle /\ VerifyIdle /\ RefineIdle /\ ChunksIdle /\ StartsIdle /\ SortIdle /\ HeurIdle
    /\ \/ /\ smode = "exact"
          /\ sgraph \in ExactSearchGraphs
          /\ sfaces = << >> /\ sschedule = << >>
          /\ starts = ExactNodesToTry(sgraph)
          /\ sexpired \in BOOLEAN
       \/ /\ smode = "bnb"
          /\ sgraph \in BnbSearchGraphs
          /\ sfaces \in {build_faces(sgraph), << >>}
          /\ sschedule \in SearchSchedules
          /\ starts = PrunedStartNodes(sgraph)
          /\ sexpired = FALSE
    /\ slimits = << >> /\ pre_search_best = 0
    /\ work_path = << >> /\ svisited = {} /\ stack = << >> /\ sphase = "begin"
    /\ local_best = NoBest /\ shared_best = NoBest
    /\ sentry = NoEntry /\ sret = NoReturn

SpecSearch == InitSearch /\ [][NextSearch]_vars

\* Each step of a search is taken once it can be: the threads of the pool
\* run until their closures end.
SpecSearchFair == SpecSearch /\ WF_vars(NextSearch)

BnbDecided == smode = "bnb" /\ sentry.outcome \in {"pruned", "kept"}

RemainingCount == node_count(sgraph) - Cardinality(svisited)

FacesAtLast == {f \in 1..Len(sfaces) : Contains(sfaces[f], Last(work_path))}

UnvisitedAtLast ==
    Cardinality({ << f, j >> \in FacesAtLast \X (1..(MAX_FACE_SIZE + 1)) :
                    j <= Len(sfaces[f]) /\ sfaces[f][j] \notin svisited })

FaceBound == enhanced_face_heuristic(sgraph, work_path, svisited, sfaces)

\* C15: a branch is pruned exactly when current_length + floor(face_bound *
\* 0.8) <= best_length_so_far; a branch whose optimistic total equals the
\* best length is pruned.
C15_PrunedExactlyWhenNotLonger ==
    BnbDecided =>
        (sentry.outcome = "pruned"
            <=> Len(work_path) + (FaceBound * 8) \div 10 <= sentry.best)

\* C16: when no face contains the path's last node the bound is the full
\* remaining count and the branch is not pruned, whatever the best length.
C16_NoFaceNoPruning ==
    (BnbDecided /\ FacesAtLast = {}) =>
        (FaceBound = RemainingCount /\ sentry.outcome = "kept")

\* C17 as stated: the bound is min(R, floor(11 * S / 10)), it never exceeds
\* R, and node_count - visited.count() never underflows.
C17_BoundIsCappedSum ==
    (BnbDecided /\ sfaces # << >>) =>
        /\ Cardinality(svisited) <= node_count(sgraph)
        /\ FaceBound = Min2(RemainingCount, (11 * UnvisitedAtLast) \div 10)
        /\ FaceBound <= RemainingCount

\* C17 amended: min(R, floor(11 * S / 10)) when some face contains the
\* path's last node, R when none does; never more than R, and the
\* subtraction never underflows.
C17_BoundIsCappedSumOrRemaining ==
    (BnbDecided /\ sfaces # << >>) =>
        /\ Cardinality(svisited) <= node_count(sgraph)
        /\ FaceBound = IF FacesAtLast = {} THEN RemainingCount
                       ELSE Min2(RemainingCount, (11 * UnvisitedAtLast) \div 10)
        /\ FaceBound <= RemainingCount

\* The bound was computed from faces at the path's last node, once with
\* the inflated sum below the remaining count and once capped by it.
C17_Witness ==
    /\ BnbDecided /\ FacesAtLast # {}
    /\ (11 * UnvisitedAtLast) \div 10 < RemainingCount
    /\ UnvisitedAtLast > 0

\* C18: in both searches visited holds exactly the nodes of the working
\* path whenever a call is entered, and when a call returns (its loop
\* over, or pruned, or at the depth limit, or at the deadline) the working
\* path and visited are what they were when it was entered.
C18_PushPopRestores ==
    /\ sphase = "call" => svisited = Range(work_path)
    /\ sphase = "return" => (work_path = sret.path /\ svisited = sret.visited)

\* A call of the bounded search has returned from its loop, in a run that
\* follows a depth-limited run from the same start node.
C18_Witness ==
    /\ smode = "bnb" /\ sphase = "return" /\ sentry.outcome = "none"
    /\ Len(work_path) >= 2 /\ Len(slimits) < Len(sschedule)
    /\ work_path = sret.path

(***************************************************************************)
(* refine_path_endpoints_subgraph, step by step: the back end, then the    *)
(* front end, each with the breadth-first collection of the free subgraph  *)
(* made visible before the rest of refine_one_endpoint_subgraph runs.      *)
(***************************************************************************)
exceptRefine == << pipeVars, faceVars, impVars, graphVars, bitVars, verVars, searchVars, chunkVars, startVars, sortVars, heurVars >>

\* A chain of six nodes with one leaf on its second and one on its fifth
\* node: both trim nodes of the chain have a neighbour off the path.
Caterpillar ==
    MkComp(Numbers(601, 608), ChainEdges(601, 606) \cup {{602, 607}, {605, 608}})

MaxRefineCut == 3

\* Arguments of refine_path_endpoints_subgraph: the searched paths of each
\* graph, whole and cut short at the end by up to MaxRefineCut nodes.
RefineInputs ==
    UNION { { [g |-> GraphOf(c), p |-> Slice(q, 1, Len(q) - k)] :
                q \in SearchPaths(GraphOf(c)), k \in 0..MaxRefineCut }
            : c \in {Caterpillar, Butterfly, LongRing, Chain5} }

InitRefine ==
    /\ PipeIdle /\ FaceIdle /\ ImproverIdle /\ GraphIdle /\ BitsetIdle /\ VerifyIdle /\ SearchIdle /\ ChunksIdle /\ StartsIdle /\ SortIdle /\ HeurIdle
    /\ \E c \in RefineInputs : rf_graph = c.g /\ rf_input = c.p
    /\ rf_best = << >> /\ rf_front = FALSE
    /\ trim_node = 0 /\ path_nodes = {} /\ sub_nodes = << >> /\ sub_ran = FALSE
    /\ rf_pc = "call" /\ rf_ret = << >>

\* refine_path_endpoints_subgraph up to its first refine_one_endpoint_subgraph.
RefineCall ==
    /\ rf_pc = "call"
    /\ \/ /\ Len(rf_input) < 6
          /\ rf_ret' = << rf_input >>
          /\ rf_pc' = "done"
          /\ UNCHANGED rf_best
       \/ /\ Len(rf_input) >= 6
          /\ rf_best' = rf_input
          /\ rf_pc' = "collect"
          /\ UNCHANGED rf_ret
    /\ UNCHANGED << exceptRefine, rf_graph, rf_input, rf_front, trim_node, path_nodes,
                    sub_nodes, sub_ran >>

\* refine_one_endpoint_subgraph from its entry to sub_nodes.
RefineCollect ==
    /\ rf_pc = "collect"
    /\ Len(rf_best) >= 6
    /\ trim_node' = rf_best[TrimPos(rf_best, rf_front)]
    /\ path_nodes' = Range(rf_best)
    /\ sub_nodes' = get_subgraph_nodes_excluding_path(rf_graph, trim_node', path_nodes')
    /\ rf_pc' = "collected"
    /\ UNCHANGED << exceptRefine, rf_graph, rf_input, rf_best, rf_front, sub_ran, rf_ret >>

\* exact_longest_path_subgraph is called when sub_nodes has more than one
\* node and the subgraph could be built.
SubSolveRuns(g, nodes) ==
    Len(nodes) > 1 /\ build_subgraph_from_nodes(g, nodes).ok

\* The rest of refine_one_endpoint_subgraph and what
\* refine_path_endpoints_subgraph does with its result.
RefineDecide ==
    /\ rf_pc = "collected"
    /\ sub_ran' = SubSolveRuns(rf_graph, sub_nodes)
    /\ rf_best' = RefinedOr(rf_best,
                      RefineFromNodes(rf_graph, rf_best, rf_front,
                                      TrimPos(rf_best, rf_front), sub_nodes))
    /\ \/ /\ ~rf_front
          /\ rf_front' = TRUE
          /\ rf_pc' = "collect"
          /\ UNCHANGED rf_ret
       \/ /\ rf_front
          /\ rf_ret' = << rf_best' >>
          /\ rf_pc' = "done"
          /\ UNCHANGED rf_front
    /\ UNCHANGED << exceptRefine, rf_graph, rf_input, trim_node, path_nodes, sub_nodes >>

NextRefine == RefineCall \/ RefineCollect \/ RefineDecide

SpecRefine == InitRefine /\ [][NextRefine]_vars

\* The nodes reachable from the nodes of reached by steps into nodes
\* outside exclude.
RECURSIVE FreeClosure(_, _, _)
FreeClosure(g, exclude, reached) ==
    IF \E u \in reached : \E n \in Range(get_neighbors(g, u)) :
           n \notin exclude /\ n \notin reached
    THEN FreeClosure(g, exclude,
             reached \cup { n \in Range(g.nodes) \ exclude :
                              \E u \in reached : Contains(get_neighbors(g, u), n) })
    ELSE reached

HasFreeNeighbour(g, n, exclude) ==
    \E k \in Range(get_neighbors(g, n)) : k \notin exclude

\* A refine_one_endpoint_subgraph call has got as far as sub_nodes.
Collected == rf_pc \in {"collected", "collect", "done"} /\ path_nodes # {}

\* C19: with every node of the path excluded, sub_nodes holds the trim
\* node and every node reachable from it through nodes off the path; when
\* the trim node has a neighbour off the path, sub_nodes has more than one
\* node and exact_longest_path_subgraph is run from the trim node.
C19_FreeSubgraphCollected ==
    /\ Collected =>
          /\ Range(sub_nodes) = FreeClosure(rf_graph, path_nodes, {trim_node})
          /\ HasFreeNeighbour(rf_graph, trim_node, path_nodes) => Len(sub_nodes) > 1
    /\ (Collected /\ rf_pc # "collected"
          /\ HasFreeNeighbour(rf_graph, trim_node, path_nodes)) => sub_ran

\* The path p is the path given, or is longer and passes verify_path.
SameOrLongerValid(g, given, p) ==
    p = given \/ (Len(p) > Len(given) /\ verify_path(g, p))

\* C20: refine_path_endpoints_subgraph returns its input path unchanged or
\* a strictly longer path that passes verify_path, its best_path being one
\* of the two after either end was refined; a path of fewer than 6 nodes
\* is returned unchanged.
C20_UnchangedOrLongerValid ==
    /\ rf_pc \in {"collect", "collected"} => SameOrLongerValid(rf_graph, rf_input, rf_best)
    /\ rf_ret # << >> => SameOrLongerValid(rf_graph, rf_input, rf_ret[1])
    /\ (rf_ret # << >> /\ Len(rf_input) < 6) => rf_ret[1] = rf_input

\* Both ends of a path of six nodes or more were refined and the path was
\* returned, the trim node of the front end having a neighbour off the path.
C20_Witness ==
    /\ rf_pc = "done" /\ Len(rf_input) >= 6 /\ rf_front
    /\ HasFreeNeighbour(rf_graph, trim_node, path_nodes)
    /\ rf_ret = << rf_input >>

(***************************************************************************)
(* The parallel part of find_heuristic_path: the closures of par_chunks    *)
(* run in any interleaving, one start node at a time, and the caller       *)
(* collects their results in chunk order when all have ended.              *)
(***************************************************************************)
exceptChunks == << pipeVars, faceVars, impVars, graphVars, bitVars, verVars, searchVars, refVars, startVars, sortVars, heurVars >>

\* The chain 703 - 701 - 702 - 704 - 705, whose first two nodes are inner
\* nodes: no longest path starts from the first chunk of three.
InnerFirstChain ==
    MkComp(Numbers(701, 705), {{703, 701}, {701, 702}, {702, 704}, {704, 705}})

ChunkGraphs == { Lollipop, InnerFirstChain, Star5, TailedTriangle, Butterfly }

InitChunks ==
    /\ PipeIdle /\ FaceIdle /\ ImproverIdle /\ GraphIdle /\ BitsetIdle /\ VerifyIdle /\ SearchIdle /\ RefineIdle /\ StartsIdle /\ SortIdle /\ HeurIdle
    /\ \E c \in ChunkGraphs : hgraph = GraphOf(c)
    /\ hfaces = build_faces(hgraph)
    /\ hthreads \in 1..(MaxThreads + 1)
    /\ hchunks = Chunks(PrunedStartNodes(hgraph),
                        Max2((Len(PrunedStartNodes(hgraph)) \div hthreads) + 1, 1))
    /\ hnext = [c \in 1..Len(hchunks) |-> 1]
    /\ hlocal = [c \in 1..Len(hchunks) |-> NoBest]
    /\ hsearched = << >> /\ hpc = "searching" /\ hglobal = NoBest

\* The closure of chunk c searches from its next start node.
ChunkSearch(c) ==
    /\ hpc = "searching"
    /\ hnext[c] <= Len(hchunks[c])
    /\ hlocal' = [hlocal EXCEPT ![c] = SearchFromStart(hgraph, hfaces,
                                                       hchunks[c][hnext[c]], hlocal[c])]
    /\ hnext' = [hnext EXCEPT ![c] = @ + 1]
    /\ hsearched' = Append(hsearched, [chunk |-> c, node |-> hchunks[c][hnext[c]]])
    /\ UNCHANGED << exceptChunks, hgraph, hfaces, hthreads, hchunks, hpc, hglobal >>

\* collect() and the loop over the results.
ChunksCollect ==
    /\ hpc = "searching"
    /\ \A c \in 1..Len(hchunks) : hnext[c] > Len(hchunks[c])
    /\ hglobal' = BestOfResults(hlocal, NoBest)
    /\ hpc' = "collected"
    /\ UNCHANGED << exceptChunks, hgraph, hfaces, hthreads, hchunks, hnext, hlocal,
                    hsearched >>

NextChunks == (\E c \in 1..Len(hchunks) : ChunkSearch(c)) \/ ChunksCollect

SpecChunks == InitChunks /\ [][NextChunks]_vars

SearchesOf(n) == {k \in 1..Len(hsearched) : hsearched[k].node = n}

\* C21: whatever the interleaving of the closures and the thread count,
\* no start node is searched twice and, once the closures have ended,
\* every selected start node has been searched once, by one chunk; the
\* local best of a chunk is what its own start nodes alone give it; and
\* the length of the selected path is the largest local best length.
C21_EachStartOnceBestIsMax ==
    /\ \A k \in 1..Len(hsearched) : Cardinality(SearchesOf(hsearched[k].node)) = 1
    /\ hpc = "collected" =>
          /\ \A n \in Range(PrunedStartNodes(hgraph)) : Cardinality(SearchesOf(n)) = 1
          /\ Len(hsearched) = Len(PrunedStartNodes(hgraph))
          /\ \A c \in 1..Len(hchunks) :
                hlocal[c] = SearchChunk(hgraph, hfaces, hchunks[c], NoBest)
          /\ Len(hglobal.path) = hglobal.len
          /\ \A c \in 1..Len(hchunks) : hlocal[c].len <= hglobal.len
          /\ hchunks # << >> => \E c \in 1..Len(hchunks) : hlocal[c].len = hglobal.len

\* Three closures have ended after searching in turns, and the selected
\* path is longer than the first closure's.
C21_Witness ==
    /\ hpc = "collected" /\ Len(hchunks) >= 3
    /\ hsearched[1].chunk # 1 /\ hsearched[2].chunk # hsearched[1].chunk
    /\ hlocal[1].len < hglobal.len

(***************************************************************************)
(* The start-candidate selection on graphs larger than the target count,   *)
(* with the target count scaled down from 254.                             *)
(***************************************************************************)
exceptStarts == << pipeVars, faceVars, impVars, graphVars, bitVars, verVars, searchVars, refVars, chunkVars, sortVars, heurVars >>

EndpointTarget == 3

\* The edges the graphs of the selection are made of: a star round 801
\* and a chain through four of its leaves.
StartEdgePool ==
    {{801, k} : k \in 802..806} \cup {{802, 803}, {803, 804}, {804, 805}}

InitStarts ==
    /\ PipeIdle /\ FaceIdle /\ ImproverIdle /\ GraphIdle /\ BitsetIdle /\ VerifyIdle /\ SearchIdle /\ RefineIdle /\ ChunksIdle /\ SortIdle /\ HeurIdle
    /\ \E edges \in SUBSET StartEdgePool : tgraph = GraphOf(MkComp(Numbers(801, 806), edges))
    /\ selected = << >> /\ tpc = "call"

\* find_heuristic_path up to pruned_start_nodes.
StartsSelect ==
    /\ tpc = "call"
    /\ \/ /\ SelectionPanics(tgraph, EndpointTarget)
          /\ tpc' = "panicked"
          /\ UNCHANGED selected
       \/ /\ ~SelectionPanics(tgraph, EndpointTarget)
          /\ selected' = SelectStartNodes(tgraph, EndpointTarget)
          /\ tpc' = "selected"
    /\ UNCHANGED << exceptStarts, tgraph >>

NextStarts == StartsSelect

SpecStarts == InitStarts /\ [][NextStarts]_vars

NodesOfDegree(g, d) == {n \in Range(g.nodes) : Degree(g, n) = d}

\* The parts of the selection that do not depend on the number of
\* degree-1 nodes: all of them are selected, no node is selected twice, no
\* node of degree 3 or more comes before a node of degree 2 or is selected
\* while a node of degree 2 is left out.
LeavesFirstThenDegree2 ==
    /\ NodesOfDegree(tgraph, 1) \subseteq Range(selected)
    /\ IsDistinct(selected)
    /\ \A i, j \in 1..Len(selected) :
          (Degree(tgraph, selected[i]) >= 3 /\ Degree(tgraph, selected[j]) = 2) => j < i
    /\ (\E i \in 1..Len(selected) : Degree(tgraph, selected[i]) >= 3)
          => NodesOfDegree(tgraph, 2) \subseteq Range(selected)

RunEnded == smode = "bnb" /\ sphase = "return" /\ stack = << >>

\* The next run goes on from the same start node with the next limit.
NextLimitTried == starts' = starts /\ slimits' = Tail(slimits) /\ sphase' = "call"

\* C23: the runs from one start node take the depth limits of the schedule
\* in order, each limit larger than the one before; after a run that
\* raised the worker's best length by more than 8 the next deeper limit is
\* tried, and after a run that raised it by at most 1 no deeper limit is
\* tried from that start node.
C23_DeepeningOrder ==
    [][ /\ (smode = "bnb" /\ sphase # "begin") =>
              /\ \E k \in 1..Len(sschedule) : slimits = SubSeq(sschedule, k, Len(sschedule))
              /\ \A k \in 1..(Len(sschedule) - 1) : sschedule[k] < sschedule[k + 1]
        /\ (RunEnded /\ Len(slimits) > 1 /\ local_best.len > pre_search_best + 8)
              => NextLimitTried
        /\ (RunEnded /\ local_best.len <= pre_search_best + 1)
              => (starts' = Tail(starts) /\ sphase' # "call") ]_vars

\* The second run from the first start node has ended one node longer
\* than the first, which had found more than 8 nodes; deeper limits remain.
C23_Witness ==
    /\ RunEnded /\ Len(starts) = Len(PrunedStartNodes(sgraph))
    /\ Len(sschedule) >= 3 /\ Len(slimits) = Len(sschedule) - 1
    /\ pre_search_best > 8 /\ local_best.len = pre_search_best + 1

(***************************************************************************)
(* The faces that build_faces stores.                                      *)
(***************************************************************************)
\* The walk of the stored face f closed on its starting half-edge: the
\* half-edge after its last one is its first.
ClosesOnStartHalfEdge(g, f) ==
    next_clockwise_neighbor(g, f[1], f[Len(f) - 1]) = << f[2] >>

\* C24: no stored face comes from a walk that reached a node of degree 1,
\* and every stored face comes from a walk that returned to the half-edge
\* it started from.
C24_NoDeadEndFaceClosedOnHalfEdge ==
    \A k \in 1..Len(fstate.faces) :
        /\ \A j \in 1..Len(fstate.faces[k]) : Degree(fgraph, fstate.faces[k][j]) # 1
        /\ ClosesOnStartHalfEdge(fgraph, fstate.faces[k])

\* The face f is a closed walk of g: it ends where it starts and every
\* node of it lists the node after it.
IsClosedWalk(g, f) ==
    /\ f[1] = f[Len(f)]
    /\ \A j \in 1..(Len(f) - 1) : Contains(get_neighbors(g, f[j]), f[j + 1])

\* C25: every stored face is a closed walk of the graph with 3 to
\* MAX_FACE_SIZE entries, and a walk under way has taken at most
\* MAX_FACE_SIZE + 1 steps (one entry of face per step after the first
\* entry).
C25_FacesClosedAndBounded ==
    /\ \A k \in 1..Len(fstate.faces) :
          /\ Len(fstate.faces[k]) >= 3 /\ Len(fstate.faces[k]) <= MAX_FACE_SIZE
          /\ IsClosedWalk(fgraph, fstate.faces[k])
    /\ fstate.walking => Len(fstate.face) - 1 <= MAX_FACE_SIZE + 1
    /\ fstate.walking => Len(fstate.face) <= MAX_FACE_SIZE

\* build_faces has ended and has stored the walk round a cycle of three
\* nodes or more.
C25_Witness ==
    /\ FaceDone(fgraph, fstate)
    /\ \E k \in 1..Len(fstate.faces) :
          Len(fstate.faces[k]) >= 4 /\ IsDistinct(Tail(fstate.faces[k]))

(***************************************************************************)
(* The paths of random_walk_improvements.                                  *)
(***************************************************************************)
\* The improver is in its annealing loop or has returned from it.
Annealed == rpc = "annealing" \/ (rpc = "returned" /\ path_idx >= 1)

\* The four joins fuse_paths tries.
Joins(g, path1, path2) ==
    { try_connect_paths(g, path1, a, path2, b) : a \in BOOLEAN, b \in BOOLEAN }

\* C27: after an iteration in which the fusion was due, no join of the
\* working path with the best path that is a valid simple path is longer
\* than the working path: the longest valid join has been taken, also when
\* a longer join is not valid.
C27_LongestValidJoinKept ==
    (rpc = "annealing" /\ iteration >= 1 /\ FusionDue(iteration - 1)) =>
        \A join \in Joins(rgraph, path, walk_best) :
            verify_path(rgraph, join) => Len(join) <= Len(path)

\* C26: from a valid input path on, the working path and the best path of
\* random_walk_improvements are valid simple paths of the graph after
\* every iteration, fusion attempt included, and so is the path returned:
\* no candidate that fails verify_path has replaced either of them.
C26_WorkingAndBestStayValid ==
    /\ Annealed => (verify_path(rgraph, path) /\ verify_path(rgraph, walk_best))
    /\ (rpc = "returned" /\ returned # << >>) => verify_path(rgraph, returned[1])

\* After an iteration with a fusion attempt, the fusion of the working
\* path with the best path is longer than the working path and is not a
\* valid path: it was discarded.
C26_Witness ==
    /\ rpc = "annealing" /\ iteration >= 1 /\ FusionDue(iteration - 1)
    /\ Len(fuse_paths(rgraph, path, walk_best)) > Len(path)
    /\ ~verify_path(rgraph, fuse_paths(rgraph, path, walk_best))

(***************************************************************************)
(* SpecSort: sort_neighbors_clockwise and build_graph_from_adjacency on a  *)
(* component in which one centre lists up to MaxSortNeighbors neighbours   *)
(* and every neighbour lists the centre.                                   *)
(***************************************************************************)
exceptSort == << pipeVars, faceVars, impVars, graphVars, bitVars, verVars, searchVars, refVars, chunkVars, startVars, heurVars >>

MaxSortNeighbors == 3

\* Centre names: "5", "0" and "a" (the last two parse to 0).
SortCentres == { Decimal(5), Decimal(0), << 10 >> }

\* Neighbour names: "1", "2", "4", "+4", "6", "06", "8" and "a1".
SortNamePool ==
    { Decimal(1), Decimal(2), Decimal(4), << 11, 4 >>, Decimal(6), << 0, 6 >>,
      Decimal(8), << 10, 1 >> }

SortNeighborLists ==
    UNION { { l \in [1..n -> SortNamePool] : IsDistinct(l) } : n \in 0..MaxSortNeighbors }

StarAround(centre, l) ==
    << [name |-> centre, nbrs |-> l] >>
    \o [k \in 1..Len(l) |-> [name |-> l[k], nbrs |-> << centre >>]]

InitSort ==
    /\ PipeIdle /\ FaceIdle /\ ImproverIdle /\ GraphIdle /\ BitsetIdle /\ VerifyIdle /\ SearchIdle /\ RefineIdle /\ ChunksIdle /\ StartsIdle /\ HeurIdle
    /\ adjacency \in { StarAround(c, l) : c \in SortCentres, l \in SortNeighborLists }
    /\ sort_checks \in BOOLEAN
    /\ sorted_adjacency = << >>
    /\ built = EmptyGraph
    /\ built_names = << >>
    /\ sort_pc = "input"

SortCall ==
    /\ sort_pc = "input"
    /\ IF SortPanics(adjacency, sort_checks)
       THEN sort_pc' = "panicked" /\ UNCHANGED sorted_adjacency
       ELSE /\ sorted_adjacency' = sort_neighbors_clockwise(adjacency)
            /\ sort_pc' = "sorted"
    /\ UNCHANGED << adjacency, sort_checks, built, built_names, exceptSort >>

\* order is the iteration order of the sorted map.
BuildCall ==
    /\ sort_pc = "sorted"
    /\ \E order \in KeyOrders(Len(sorted_adjacency)) :
          IF BuildPanics(Permuted(sorted_adjacency, order))
          THEN sort_pc' = "panicked" /\ UNCHANGED << built, built_names >>
          ELSE /\ built' = build_graph_from_adjacency(Permuted(sorted_adjacency, order))
               /\ built_names' = id_to_name(Permuted(sorted_adjacency, order))
               /\ sort_pc' = "built"
    /\ UNCHANGED << adjacency, sort_checks, sorted_adjacency, exceptSort >>

NextSort == SortCall \/ BuildCall

SpecSort == InitSort /\ [][NextSort]_vars

CountOf(s, x) == Cardinality({ k \in 1..Len(s) : s[k] = x })

IsPermutationOf(s, t) ==
    Len(s) = Len(t) /\ \A x \in Range(s) \cup Range(t) : CountOf(s, x) = CountOf(t, x)

\* The place of a neighbour round the centre: 1 above, 2 same row next,
\* 3 below, 4 same row previous.
RowOf(center, n) ==
    IF center >= 1 /\ ParseName(n) = center - 1 THEN 4
    ELSE IF ParseName(n) = center + 1 THEN 2
    ELSE IF ParseName(n) < center THEN 1
    ELSE 3

IsClockwise(center_str, l) ==
    \A a, b \in 1..Len(l) :
        a < b =>
            /\ RowOf(ParseName(center_str), l[a]) <= RowOf(ParseName(center_str), l[b])
            /\ RowOf(ParseName(center_str), l[a]) = 1
               /\ RowOf(ParseName(center_str), l[b]) = 1
                    => ParseName(l[a]) <= ParseName(l[b])
            /\ RowOf(ParseName(center_str), l[a]) = 3
               /\ RowOf(ParseName(center_str), l[b]) = 3
                    => ParseName(l[a]) >= ParseName(l[b])

NamesOfAdj(g, table, id) == [k \in 1..Len(g.adj[id]) |-> table[g.adj[id][k] + 1]]

\* C28: sort_neighbors_clockwise returns, for every node, a permutation of
\* the node's neighbour list (no neighbour dropped or duplicated, whatever
\* the names parse to), arranged above ascending, same row next, below
\* descending, same row previous; and the graph built from the sorted map
\* lists every node's neighbours in that order.
C28_SortedIsClockwisePermutation ==
    /\ sort_pc # "panicked"
    /\ sort_pc \in {"sorted", "built"} =>
          \A k \in 1..Len(adjacency) :
              /\ sorted_adjacency[k].name = adjacency[k].name
              /\ IsPermutationOf(sorted_adjacency[k].nbrs, adjacency[k].nbrs)
              /\ Len(adjacency[k].nbrs) >= 2 =>
                    IsClockwise(adjacency[k].name, sorted_adjacency[k].nbrs)
    /\ sort_pc = "built" =>
          \A id \in 0..(Len(built_names) - 1) :
              NamesOfAdj(built, built_names, id)
                  = EntryOf(sorted_adjacency, built_names[id + 1]).nbrs

\* C29: when add_edge returns an error, the graph is left exactly as it was
\* before the call: no node added, no neighbour list changed.
C29_FailedAddEdgeChangesNothing ==
    \A from \in GraphIds : \A to \in GraphIds :
        ~add_edge(ug, from, to).ok => add_edge(ug, from, to).g = ug

(***************************************************************************)
(* SpecHeur: find_heuristic_path step by step, on caterpillars (a chain    *)
(* of 6 or 7 nodes with legs on inner nodes) and on graphs with cycles.    *)
(***************************************************************************)
exceptHeur == << pipeVars, faceVars, impVars, graphVars, bitVars, verVars, searchVars, refVars, chunkVars, startVars, sortVars >>

\* The chain 901..(900 + n) with a leg 910 + k on each node 900 + k, k in legs.
Legged(n, legs) ==
    MkComp(Numbers(901, 900 + n) \o AscendingSeq({910 + k : k \in legs}),
           ChainEdges(901, 900 + n) \cup {{900 + k, 910 + k} : k \in legs})

HeurComponents ==
    { Legged(6, legs) : legs \in SUBSET (2..5) }
    \cup { Legged(7, legs) : legs \in { l \in SUBSET (2..6) : Cardinality(l) <= 3 } }
    \cup { Caterpillar, Butterfly, LongRing, Lollipop }

InitHeur ==
    /\ PipeIdle /\ FaceIdle /\ ImproverIdle /\ GraphIdle /\ BitsetIdle /\ VerifyIdle /\ SearchIdle /\ RefineIdle /\ ChunksIdle /\ StartsIdle /\ SortIdle
    /\ pf_graph \in { GraphOf(c) : c \in HeurComponents }
    /\ pf_faces = build_faces(pf_graph)
    /\ pf_threads \in 1..(MaxThreads + 1)
    /\ pf_results = << >>
    /\ pf_best = NoBest
    /\ pf_coverage = 0
    /\ pf_pc = "search"

\* The parallel search, the loop over its results and coverage_pct.
HeurSearch ==
    /\ pf_pc = "search"
    /\ pf_results' = HeuristicResults(pf_graph, pf_faces, pf_threads)
    /\ pf_best' = BestOfResults(HeuristicResults(pf_graph, pf_faces, pf_threads), pf_best)
    /\ pf_coverage' =
          CoveragePct(BestOfResults(HeuristicResults(pf_graph, pf_faces, pf_threads),
                                    pf_best).len,
                      node_count(pf_graph))
    /\ pf_pc' = "first"
    /\ UNCHANGED << pf_graph, pf_faces, pf_threads, exceptHeur >>

HeurRefineFirst ==
    /\ pf_pc = "first"
    /\ pf_best' = [pf_best EXCEPT !.path =
                      IF pf_coverage < COVERAGE_TARGET_PCT /\ pf_best.path # << >>
                      THEN refine_path_endpoints_subgraph(pf_graph, pf_best.path)
                      ELSE pf_best.path]
    /\ pf_pc' = "second"
    /\ UNCHANGED << pf_graph, pf_faces, pf_threads, pf_results, pf_coverage, exceptHeur >>

HeurRefineAgain ==
    /\ pf_pc = "second"
    /\ pf_best' = [pf_best EXCEPT !.path = RefineAgain(pf_graph, pf_best.path, pf_coverage)]
    /\ pf_pc' = "returned"
    /\ UNCHANGED << pf_graph, pf_faces, pf_threads, pf_results, pf_coverage, exceptHeur >>

NextHeur == HeurSearch \/ HeurRefineFirst \/ HeurRefineAgain

SpecHeur == InitHeur /\ [][NextHeur]_vars

\* C30: the path find_heuristic_path returns is never shorter than the
\* longest path found by any worker: neither the first refinement nor the
\* second pass, which works on the path without its two end nodes, leaves
\* global_best_path shorter than a worker's result.
C30_NeverShorterThanWorkers ==
    pf_pc \in {"second", "returned"} =>
        /\ \A c \in 1..Len(pf_results) : Len(pf_best.path) >= Len(pf_results[c].path)
        /\ pf_pc = "returned" =>
              pf_best.path = find_heuristic_path(pf_graph, pf_faces, pf_threads)

\* A call has returned whose search result was below the coverage target
\* and long enough for the endpoint refiner to work on.
C30_Witness ==
    /\ pf_pc = "returned"
    /\ pf_coverage < COVERAGE_TARGET_PCT
    /\ \E c \in 1..Len(pf_results) : Len(pf_results[c].path) >= 6
    /\ \E c \in 1..Len(pf_results) : Len(pf_results[c].path) = Len(pf_best.path)

====
